-------------------------- MODULE ProcEntry_proofs --------------------------
(***************************************************************************)
(* The properties of KernelCallbacks and of ProcEntry, for any number of    *)
(* processors and tasks, every ENTRY_LEN and every LastExpiry.             *)
(*                                                                         *)
(* ReadsText: the invariant says where the text is: the last character is  *)
(* never anything but a terminator; what was stored alone stands in the    *)
(* array until the next write; and the only writer has put down what it    *)
(* has copied.                                                             *)
(* NothingLeft and CountersThere: the invariant says what may be hooked    *)
(* and may run in each phase of loading and unloading.                     *)
(***************************************************************************)
EXTENDS KernelCallbacks, TLAPS

Names == {"wakeup", "switch", "migrate", "read", "write", "callback", "rearmed"}

\* The array holds the text s and its terminator.
Holds(s) ==
    /\ Len(s) < ENTRY_LEN
    /\ \A n \in 1 .. Len(s) : value[n - 1] = s[n]
    /\ value[Len(s)] = 0

EntryType ==
    /\ call \in [Cpus -> Names \cup {NONE}]
    /\ value \in [0 .. ENTRY_LEN - 1 -> Cpus \cup {0}]
    /\ size \in [Cpus -> Nat \cup {NONE}]
    /\ copied \in [Cpus -> Seq(Cpus)]
    /\ lone \in Cpus \cup {NONE}
    /\ stored \in SUBSET Seq(Cpus)
    /\ expected \in [Cpus -> SUBSET Seq(Cpus)]

CallInv ==
    \A k \in Cpus :
        /\ call[k] \notin {"read", "write"} => size[k] = NONE
        /\ k \in Writing => size[k] \in 0 .. ENTRY_LEN - 1 /\ Len(copied[k]) <= size[k]
        /\ Reading(k) => Len(copied[k]) < ENTRY_LEN

ValueInv ==
    /\ value[ENTRY_LEN - 1] = 0
    /\ stored # {} => Writing = {}
    /\ \A s \in stored : Holds(s)
    /\ lone # NONE =>
        /\ Writing = {lone}
        /\ \A n \in 1 .. Len(copied[lone]) : value[n - 1] = copied[lone][n]

ReadInv ==
    \A k \in Cpus : Reading(k) =>
        /\ expected[k] \subseteq stored
        /\ \A s \in expected[k] :
            /\ Len(copied[k]) <= Len(s)
            /\ \A n \in 1 .. Len(copied[k]) : copied[k][n] = s[n]

EntryInv == EntryType /\ CallInv /\ ValueInv /\ ReadInv

\* The kernel calls what the module has hooked; the timer's handler goes on
\* when it has hooked itself again.
HookInv ==
    /\ hooked \subseteq Mine
    /\ \A k \in Cpus : call[k] \in Mine \cup {NONE} \/ (program = "timer" /\ call[k] = "rearmed")

Inv == EntryInv /\ HookInv

------------------------------------------------------------------------------
\* A reader at the terminator has the text that was stored.
LEMMA AtEndWhole == ASSUME EntryInv, NEW k \in Cpus, Reading(k), AtEnd(k), NEW s \in expected[k]
                    PROVE  copied[k] = s
<1> USE EntryAssumption
<1>1. copied[k] \in Seq(Cpus) /\ s \in Seq(Cpus)
  BY DEF EntryInv, EntryType
<1>2. Len(copied[k]) <= Len(s) /\ \A n \in 1 .. Len(copied[k]) : copied[k][n] = s[n]
  BY DEF EntryInv, ReadInv
<1>3. Holds(s)
  BY DEF EntryInv, ReadInv, ValueInv
<1>4. Len(copied[k]) = Len(s)
  <2> SUFFICES ASSUME Len(copied[k]) < Len(s) PROVE FALSE
    BY <1>1, <1>2
  <2>1. Len(copied[k]) + 1 \in 1 .. Len(s)
    BY <1>1
  <2>2. value[Len(copied[k])] = s[Len(copied[k]) + 1]
    BY <1>1, <1>3, <2>1 DEF Holds
  <2>3. s[Len(copied[k]) + 1] \in Cpus
    BY <1>1, <2>1
  <2> QED
    BY <2>2, <2>3 DEF AtEnd
<1> QED
  BY <1>1, <1>2, <1>4

LEMMA InvReads == EntryInv => ReadsText
BY AtEndWhole DEF EntryInv, CallInv, ReadsText

------------------------------------------------------------------------------
(* The calls preserve the invariant.                                       *)

LEMMA BeginWrite == ASSUME EntryInv, NEW k \in Cpus, WriteBegins(k) PROVE EntryInv'
<1> USE EntryAssumption
<1> USE DEF EntryInv, EntryType, Writing, Reading
<1>1. PICK n \in 0 .. ENTRY_LEN :
        IF n > ENTRY_LEN - 1
        THEN Done(k) /\ UNCHANGED <<copied, lone, stored, expected>>
        ELSE /\ size' = [size EXCEPT ![k] = n]
             /\ copied' = [copied EXCEPT ![k] = <<>>]
             /\ lone' = IF Writing = {} THEN k ELSE NONE
             /\ stored' = {}
             /\ expected' = [j \in Cpus |-> {}]
             /\ UNCHANGED call
  BY DEF WriteBegins
<1>2. CASE n > ENTRY_LEN - 1
  <2> USE <1>1, <1>2
  <2>0. EntryType'
    BY DEF WriteBegins, Done
  <2>1. CallInv'
    BY <2>0 DEF Done, CallInv, WriteBegins
  <2>2. Writing' = Writing /\ \A j \in Cpus : Reading(j)' <=> Reading(j)
    BY <2>0 DEF Done, WriteBegins
  <2>3. ValueInv'
    <3>1. value' = value /\ stored' = stored /\ lone' = lone /\ copied' = copied
      BY DEF WriteBegins
    <3> QED
      BY <2>2, <3>1 DEF ValueInv, Holds
  <2>4. ReadInv'
    BY <2>2 DEF ReadInv, WriteBegins
  <2> QED
    BY <2>0, <2>1, <2>3, <2>4
<1>3. CASE n <= ENTRY_LEN - 1
  <2>1. /\ size' = [size EXCEPT ![k] = n]
        /\ copied' = [copied EXCEPT ![k] = <<>>]
        /\ lone' = IF Writing = {} THEN k ELSE NONE
        /\ stored' = {}
        /\ expected' = [j \in Cpus |-> {}]
        /\ call' = call
    BY <1>1, <1>3
  <2>2. value' = value /\ call[k] = "write" /\ size[k] = NONE
    BY DEF WriteBegins
  <2>3. n \in 0 .. ENTRY_LEN - 1 /\ n # NONE
    BY <1>3
  <2>4. EntryType'
    <3>1. size' \in [Cpus -> Nat \cup {NONE}]
      BY <2>1, <2>3
    <3>2. copied' \in [Cpus -> Seq(Cpus)]
      BY <2>1
    <3>3. lone' \in Cpus \cup {NONE}
      BY <2>1
    <3>4. expected' \in [Cpus -> SUBSET Seq(Cpus)] /\ stored' \in SUBSET Seq(Cpus)
      BY <2>1
    <3> QED
      BY <2>1, <2>2, <3>1, <3>2, <3>3, <3>4
  <2>5. size'[k] = n /\ copied'[k] = <<>>
    BY <2>1
  <2>6. \A j \in Cpus \ {k} : size'[j] = size[j] /\ copied'[j] = copied[j]
    BY <2>1
  <2>7. CallInv'
    <3> SUFFICES ASSUME NEW j \in Cpus
                 PROVE  /\ call'[j] \notin {"read", "write"} => size'[j] = NONE
                        /\ (j \in Writing)' => size'[j] \in 0 .. ENTRY_LEN - 1 /\ Len(copied'[j]) <= size'[j]
                        /\ Reading(j)' => Len(copied'[j]) < ENTRY_LEN
      BY DEF CallInv
    <3>1. CASE j = k
      BY <2>1, <2>2, <2>3, <2>5, <3>1
    <3>2. CASE j # k
      BY <2>1, <2>6, <3>2 DEF CallInv
    <3> QED
      BY <3>1, <3>2
  <2>8. Writing' = Writing \cup {k}
    BY <2>1, <2>2, <2>3, <2>5, <2>6
  <2>9. ValueInv'
    <3>1. CASE Writing = {}
      BY <2>1, <2>2, <2>5, <2>8, <3>1 DEF ValueInv
    <3>2. CASE Writing # {}
      BY <2>1, <2>2, <3>2 DEF ValueInv
    <3> QED
      BY <3>1, <3>2
  <2>10. ReadInv'
    BY <2>1 DEF ReadInv
  <2> QED
    BY <2>4, <2>7, <2>9, <2>10
<1> QED
  BY <1>2, <1>3

LEMMA CopyWrite == ASSUME EntryInv, NEW k \in Cpus, CopyFromUser(k) PROVE EntryInv'
<1> USE EntryAssumption
<1> USE DEF EntryInv, EntryType, Writing, Reading
<1>1. EntryType'
  <2>1. CASE Done(k) /\ lone' = NONE /\ UNCHANGED <<value, copied>>
    BY <2>1 DEF CopyFromUser, Done
  <2>2. CASE /\ Len(copied[k]) < size[k]
             /\ value' = [value EXCEPT ![Len(copied[k])] = k]
             /\ copied' = [copied EXCEPT ![k] = Append(@, k)]
             /\ UNCHANGED <<call, size, lone>>
    <3>1. Append(copied[k], k) \in Seq(Cpus)
      OBVIOUS
    <3>2. copied' \in [Cpus -> Seq(Cpus)]
      BY <2>2, <3>1
    <3>3. value' \in [0 .. ENTRY_LEN - 1 -> Cpus \cup {0}]
      BY <2>2
    <3> QED
      BY <2>2, <3>2, <3>3 DEF CopyFromUser
  <2> QED
    BY <2>1, <2>2 DEF CopyFromUser
<1>2. stored = {} /\ (lone # NONE => lone = k)
  BY DEF CopyFromUser, ValueInv
<1>3. CASE /\ Len(copied[k]) < size[k]
           /\ value' = [value EXCEPT ![Len(copied[k])] = k]
           /\ copied' = [copied EXCEPT ![k] = Append(@, k)]
           /\ UNCHANGED <<call, size, lone>>
  <2>1. Len(copied[k]) \in 0 .. ENTRY_LEN - 2 /\ size[k] \in 0 .. ENTRY_LEN - 1
    BY <1>3 DEF CopyFromUser, CallInv
  <2>2. CallInv'
    BY <1>1, <1>3, <2>1 DEF CopyFromUser, CallInv
  <2>3. Writing' = Writing
    BY <1>3
  <2>4. value'[ENTRY_LEN - 1] = 0
    BY <1>3, <2>1 DEF ValueInv
  <2>5. ASSUME lone' # NONE, NEW n \in 1 .. Len(copied'[lone'])
        PROVE  value'[n - 1] = copied'[lone'][n]
    <3>1. lone' = k /\ lone = k
      BY <1>2, <1>3, <2>5
    <3>2. copied'[k] = Append(copied[k], k) /\ Len(copied'[k]) = Len(copied[k]) + 1
      BY <1>3
    <3>3. CASE n = Len(copied[k]) + 1
      BY <1>3, <2>1, <3>1, <3>2, <3>3
    <3>4. CASE n \in 1 .. Len(copied[k])
      <4>1. value[n - 1] = copied[k][n]
        BY <3>1, <3>4 DEF ValueInv
      <4>2. value'[n - 1] = value[n - 1]
        BY <1>3, <2>1, <3>4
      <4>3. copied'[k][n] = copied[k][n]
        BY <3>2, <3>4
      <4> QED
        BY <3>1, <4>1, <4>2, <4>3
    <3> QED
      BY <2>5, <3>1, <3>2, <3>3, <3>4
  <2>6. ValueInv'
    BY <1>2, <1>3, <2>3, <2>4, <2>5 DEF ValueInv, CopyFromUser
  <2>7. ReadInv'
    BY <1>3 DEF ReadInv, CopyFromUser
  <2> QED
    BY <1>1, <2>2, <2>6, <2>7
<1>4. CASE Done(k) /\ lone' = NONE /\ UNCHANGED <<value, copied>>
  <2>1. CallInv'
    BY <1>1, <1>4 DEF CopyFromUser, CallInv, Done
  <2>2. ValueInv'
    BY <1>2, <1>4 DEF CopyFromUser, ValueInv
  <2>3. ReadInv'
    BY <1>4 DEF ReadInv, CopyFromUser, Done
  <2> QED
    BY <1>1, <2>1, <2>2, <2>3
<1> QED
  BY <1>3, <1>4 DEF CopyFromUser

LEMMA EndWrite == ASSUME EntryInv, NEW k \in Cpus, WriteEnds(k) PROVE EntryInv'
<1> USE EntryAssumption
<1> USE DEF EntryInv, EntryType, Writing, Reading
<1>1. size[k] \in 0 .. ENTRY_LEN - 1 /\ Len(copied[k]) = size[k]
  BY DEF WriteEnds, CallInv
<1>2. EntryType'
  BY <1>1 DEF WriteEnds, Done
<1>3. stored = {} /\ (lone # NONE => lone = k) /\ lone' = NONE
  BY DEF WriteEnds, ValueInv
<1>4. CallInv'
  BY <1>2 DEF WriteEnds, CallInv, Done
<1>5. value' = [value EXCEPT ![size[k]] = 0] /\ value'[ENTRY_LEN - 1] = 0
  BY <1>1 DEF WriteEnds, ValueInv
<1>6. CASE lone = k
  <2>1. stored' = {copied[k]}
    BY <1>6 DEF WriteEnds
  <2>2. Writing = {k} /\ \A n \in 1 .. Len(copied[k]) : value[n - 1] = copied[k][n]
    BY <1>6 DEF ValueInv
  <2>3. Writing' = {}
    BY <2>2 DEF WriteEnds, Done
  <2>4. Holds(copied[k])'
    <3>1. copied' = copied
      BY DEF WriteEnds
    <3>2. \A n \in 1 .. Len(copied[k]) : value'[n - 1] = copied[k][n]
      BY <1>1, <1>5, <2>2
    <3>3. value'[Len(copied[k])] = 0
      BY <1>1, <1>5
    <3> QED
      BY <1>1, <3>1, <3>2, <3>3 DEF Holds
  <2>5. ValueInv'
    BY <1>3, <1>5, <2>1, <2>3, <2>4 DEF ValueInv, Holds, WriteEnds
  <2>6. ReadInv'
    BY <1>3 DEF ReadInv, WriteEnds, Done
  <2> QED
    BY <1>2, <1>4, <2>5, <2>6
<1>7. CASE lone # k
  <2>1. stored' = {}
    BY <1>7 DEF WriteEnds
  <2>2. ValueInv'
    BY <1>3, <1>5, <2>1 DEF ValueInv
  <2>3. ReadInv'
    BY <1>3 DEF ReadInv, WriteEnds, Done
  <2> QED
    BY <1>2, <1>4, <2>2, <2>3
<1> QED
  BY <1>6, <1>7

LEMMA BeginRead == ASSUME EntryInv, NEW k \in Cpus, ReadBegins(k) PROVE EntryInv'
<1> USE EntryAssumption
<1> USE DEF EntryInv, EntryType, Writing, Reading
<1>1. value' = value /\ lone' = lone /\ stored' = stored
  BY DEF ReadBegins
<1>2. CASE Done(k) /\ UNCHANGED <<copied, expected>>
  <2>1. EntryType'
    BY <1>1, <1>2 DEF Done
  <2>2. CallInv'
    BY <1>2, <2>1 DEF CallInv, Done
  <2>3. Writing' = Writing /\ \A j \in Cpus : Reading(j)' => Reading(j)
    BY <1>2 DEF Done, ReadBegins
  <2>4. ValueInv'
    BY <1>1, <1>2, <2>3 DEF ValueInv, Holds
  <2>5. ReadInv'
    BY <1>1, <1>2, <2>3 DEF ReadInv
  <2> QED
    BY <2>1, <2>2, <2>4, <2>5
<1>3. CASE /\ size' = [size EXCEPT ![k] = 0]
           /\ copied' = [copied EXCEPT ![k] = <<>>]
           /\ expected' = [expected EXCEPT ![k] = stored]
           /\ UNCHANGED call
  <2>1. EntryType'
    <3>1. copied' \in [Cpus -> Seq(Cpus)]
      BY <1>3
    <3>2. expected' \in [Cpus -> SUBSET Seq(Cpus)]
      BY <1>3
    <3>3. size' \in [Cpus -> Nat \cup {NONE}]
      BY <1>3
    <3> QED
      BY <1>1, <1>3, <3>1, <3>2, <3>3
  <2>2. call[k] = "read" /\ copied'[k] = <<>> /\ expected'[k] = stored
    BY <1>3 DEF ReadBegins
  <2>3. \A j \in Cpus \ {k} : /\ size'[j] = size[j] /\ copied'[j] = copied[j]
                              /\ expected'[j] = expected[j]
    BY <1>3
  <2>4. CallInv'
    BY <1>3, <2>2, <2>3 DEF CallInv
  <2>5. Writing' = Writing
    BY <1>3, <2>2, <2>3
  <2>6. lone # NONE => lone # k
    BY <2>2 DEF ValueInv
  <2>7. ValueInv'
    <3>1. value' = value /\ stored' = stored /\ lone' = lone
      BY <1>1
    <3>2. lone # NONE => copied'[lone] = copied[lone]
      BY <2>3, <2>6
    <3> QED
      BY <2>5, <3>1, <3>2 DEF ValueInv, Holds
  <2>8. ReadInv'
    <3> SUFFICES ASSUME NEW j \in Cpus, Reading(j)'
                 PROVE  /\ expected'[j] \subseteq stored'
                        /\ \A s \in expected'[j] :
                             /\ Len(copied'[j]) <= Len(s)
                             /\ \A n \in 1 .. Len(copied'[j]) : copied'[j][n] = s[n]
      BY DEF ReadInv
    <3>1. CASE j = k
      BY <1>1, <2>1, <2>2, <3>1
    <3>2. CASE j # k
      <4>1. Reading(j)
        BY <1>3, <2>3, <3>2
      <4> QED
        BY <1>1, <2>3, <3>2, <4>1 DEF ReadInv
    <3> QED
      BY <3>1, <3>2
  <2> QED
    BY <2>1, <2>4, <2>7, <2>8
<1> QED
  BY <1>2, <1>3 DEF ReadBegins

\* A reader that is expected to find s has not passed its end.
LEMMA PrintOne == ASSUME EntryInv, NEW k \in Cpus, PrintNext(k) PROVE EntryInv'
<1> USE EntryAssumption
<1> USE DEF EntryInv, EntryType, Writing, Reading
<1> DEFINE l == Len(copied[k])
<1>1. copied[k] \in Seq(Cpus) /\ l \in 0 .. ENTRY_LEN - 1 /\ value[l] # 0
  BY DEF PrintNext, CallInv, AtEnd
<1>2. value[l] \in Cpus /\ l \in 0 .. ENTRY_LEN - 2
  BY <1>1 DEF ValueInv
<1>3. /\ copied' = [copied EXCEPT ![k] = Append(copied[k], value[l])]
      /\ call' = call /\ value' = value /\ size' = size /\ lone' = lone
      /\ stored' = stored /\ expected' = expected /\ Reading(k)
  BY DEF PrintNext
<1>4. /\ copied'[k] = Append(copied[k], value[l])
      /\ copied'[k] \in Seq(Cpus) /\ Len(copied'[k]) = l + 1
  BY <1>1, <1>2, <1>3
<1>5. \A j \in Cpus \ {k} : copied'[j] = copied[j]
  BY <1>3
<1> HIDE DEF l
<1>6. EntryType'
  <2>1. copied' \in [Cpus -> Seq(Cpus)]
    BY <1>3, <1>4
  <2> QED
    BY <1>3, <2>1
<1>7. CallInv'
  BY <1>2, <1>3, <1>4, <1>5 DEF CallInv
<1>8. lone # NONE => lone # k
  BY <1>3 DEF ValueInv
<1>9. ValueInv'
  BY <1>3, <1>5, <1>8 DEF ValueInv, Holds
<1>10. ASSUME NEW s \in expected[k]
       PROVE  l + 1 <= Len(s) /\ \A n \in 1 .. l + 1 : copied'[k][n] = s[n]
  <2>1. Holds(s) /\ s \in Seq(Cpus) /\ l <= Len(s) /\ \A n \in 1 .. l : copied[k][n] = s[n]
    BY <1>3, <1>10 DEF ReadInv, ValueInv, l
  <2>2. l # Len(s)
    BY <1>1, <2>1 DEF Holds
  <2>3. l + 1 \in 1 .. Len(s)
    BY <1>2, <2>1, <2>2
  <2>4. value[l] = s[l + 1]
    BY <1>2, <2>1, <2>3 DEF Holds
  <2>5. copied'[k][l + 1] = value[l] /\ \A n \in 1 .. l : copied'[k][n] = copied[k][n]
    BY <1>1, <1>2, <1>4 DEF l
  <2>6. ASSUME NEW n \in 1 .. l + 1
        PROVE  copied'[k][n] = s[n]
    <3>1. CASE n = l + 1
      BY <2>4, <2>5, <3>1
    <3>2. CASE n \in 1 .. l
      BY <2>1, <2>5, <3>2
    <3> QED
      BY <1>2, <3>1, <3>2
  <2>7. l + 1 <= Len(s)
    BY <1>2, <2>1, <2>3
  <2> QED
    BY <2>6, <2>7
<1>11. ReadInv'
  <2> SUFFICES ASSUME NEW j \in Cpus, Reading(j)'
               PROVE  /\ expected'[j] \subseteq stored'
                      /\ \A s \in expected'[j] :
                           /\ Len(copied'[j]) <= Len(s)
                           /\ \A n \in 1 .. Len(copied'[j]) : copied'[j][n] = s[n]
    BY DEF ReadInv
  <2>1. CASE j = k
    BY <1>3, <1>4, <1>10, <2>1 DEF ReadInv
  <2>2. CASE j # k
    BY <1>3, <1>5, <2>2 DEF ReadInv
  <2> QED
    BY <2>1, <2>2
<1> QED
  BY <1>6, <1>7, <1>9, <1>11

LEMMA EndRead == ASSUME EntryInv, NEW k \in Cpus, ReadEnds(k) PROVE EntryInv'
<1> USE EntryAssumption
<1> USE DEF EntryInv, EntryType, Writing, Reading
<1>1. /\ Done(k) /\ call[k] = "read"
      /\ UNCHANGED <<value, copied, lone, stored, expected>>
  BY DEF ReadEnds
<1>2. EntryType'
  BY <1>1 DEF Done
<1>3. CallInv'
  BY <1>1, <1>2 DEF CallInv, Done
<1>4. Writing' = Writing /\ \A j \in Cpus : Reading(j)' => Reading(j)
  BY <1>1 DEF Done
<1>5. ValueInv'
  BY <1>1, <1>4 DEF ValueInv, Holds
<1>6. ReadInv'
  BY <1>1, <1>4 DEF ReadInv
<1> QED
  BY <1>2, <1>3, <1>5, <1>6

\* Nothing else touches the text, nor the calls that are copying.
LEMMA Frame == ASSUME EntryInv,
                      UNCHANGED <<value, size, copied, lone, stored, expected>>,
                      call' \in [Cpus -> Names \cup {NONE}],
                      \A k \in Cpus : call'[k] # call[k] => size[k] = NONE
               PROVE  EntryInv'
<1> USE EntryAssumption
<1> USE DEF EntryInv, EntryType, Writing, Reading
<1>1. Writing' = Writing /\ \A k \in Cpus : Reading(k)' => Reading(k)
  OBVIOUS
<1>2. CallInv'
  BY <1>1 DEF CallInv
<1>3. ValueInv'
  BY <1>1 DEF ValueInv, Holds
<1>4. ReadInv'
  BY <1>1 DEF ReadInv
<1> QED
  BY <1>2, <1>3, <1>4

------------------------------------------------------------------------------
(* The module and the kernel.                                              *)

LEMMA MineNames == Mine \subseteq Names /\ (program \notin Entries => Mine \cap {"read", "write"} = {})
BY DEF Mine, Callbacks, Names, Entries

LEMMA LoadInv == ASSUME Inv, Load PROVE Inv'
<1>1. /\ UNCHANGED kernelVars /\ UNCHANGED call
      /\ hooked' \subseteq hooked \cup Mine
  BY DEF Load, timer_example_module_init, tasklet_module_init, workqueue0_init,
         workqueue1_init, kprobe_init, irq_request_init, irq_test_init, proc_entry2_init,
         proc_entry1_init, proc_entry0_init, AllocPercpu, TracepointLookup,
         FindTracepoints, RegisterProbe, InitFails, Hook, HookFails
<1>2. EntryInv'
  BY <1>1, Frame DEF Inv, EntryInv, EntryType, kernelVars, entryVars
<1>3. HookInv'
  BY <1>1 DEF Inv, HookInv, kernelVars, Mine
<1> QED
  BY <1>2, <1>3 DEF Inv

LEMMA UnloadInv == ASSUME Inv, Unload PROVE Inv'
<1>1. UNCHANGED kernelVars /\ UNCHANGED call /\ hooked' \subseteq hooked
  BY DEF Unload, ExitPending, ExitDelete, tasklet_module_exit, workqueue0_exit,
         workqueue1_exit, kprobe_exit, irq_request_exit, irq_test_exit, proc_entry2_exit,
         proc_entry1_exit, proc_entry0_exit, UnregisterProbe, Synchronize, FreePercpu,
         Gone, PrintOnly, Unhook
<1>2. EntryInv'
  BY <1>1, Frame DEF Inv, EntryInv, EntryType, kernelVars, entryVars
<1>3. HookInv'
  BY <1>1 DEF Inv, HookInv, kernelVars, Mine
<1> QED
  BY <1>2, <1>3 DEF Inv

LEMMA FireInv == ASSUME Inv, NEW k \in Cpus, NEW c \in Mine, Fire(k, c) PROVE Inv'
<1>1. /\ call' = [call EXCEPT ![k] = c] /\ call[k] = NONE /\ hooked' \subseteq hooked
      /\ UNCHANGED kernelVars
  BY DEF Fire
<1>2. size[k] = NONE
  BY <1>1, EntryAssumption DEF Inv, EntryInv, CallInv
<1>3. call' \in [Cpus -> Names \cup {NONE}]
  BY <1>1, MineNames DEF Inv, EntryInv, EntryType
<1>4. EntryInv'
  BY <1>1, <1>2, <1>3, Frame DEF Inv, EntryInv, EntryType, kernelVars, entryVars
<1>5. HookInv'
  BY <1>1, <1>3 DEF Inv, HookInv, EntryInv, EntryType, kernelVars, Mine
<1> QED
  BY <1>4, <1>5 DEF Inv

LEMMA BodyInv == ASSUME Inv, NEW k \in Cpus, Body(k) PROVE Inv'
<1>1. /\ \/ call' = [call EXCEPT ![k] = NONE]
         \/ program = "timer" /\ call' = [call EXCEPT ![k] = "rearmed"]
      /\ hooked' \subseteq hooked \cup Mine
      /\ program \notin Entries /\ UNCHANGED kernelVars
  BY DEF Body, Expire, ExpireReturns, Probe, handler_pre, example_interrupt, intr_handler,
         tasklet_hello, pet_entry_show, work_func, Counts, Return, Entries, Traced
<1>2. size[k] = NONE
  BY <1>1, MineNames, EntryAssumption DEF Inv, HookInv, EntryInv, CallInv
<1>3. call' \in [Cpus -> Names \cup {NONE}]
  BY <1>1 DEF Inv, EntryInv, EntryType, Names
<1>4. EntryInv'
  BY <1>1, <1>2, <1>3, Frame DEF Inv, EntryInv, EntryType, kernelVars, entryVars
<1>5. HookInv'
  BY <1>1, <1>3 DEF Inv, HookInv, EntryInv, EntryType, kernelVars, Mine
<1> QED
  BY <1>4, <1>5 DEF Inv

LEMMA EntryStep == ASSUME Inv, NEW k \in Cpus, Entry(k) PROVE Inv'
<1>1. UNCHANGED <<program, hooked>>
  BY DEF Entry
<1>2. EntryInv'
  <2>1. CASE WriteBegins(k)
    BY <2>1, BeginWrite DEF Inv
  <2>2. CASE CopyFromUser(k)
    BY <2>2, CopyWrite DEF Inv
  <2>3. CASE WriteEnds(k)
    BY <2>3, EndWrite DEF Inv
  <2>4. CASE ReadBegins(k)
    BY <2>4, BeginRead DEF Inv
  <2>5. CASE PrintNext(k)
    BY <2>5, PrintOne DEF Inv
  <2>6. CASE ReadEnds(k)
    BY <2>6, EndRead DEF Inv
  <2>7. CASE Reopen(k)
    BY <2>7, Frame DEF Inv, Reopen, EntryInv, EntryType
  <2> QED
    BY <2>1, <2>2, <2>3, <2>4, <2>5, <2>6, <2>7 DEF Entry, EntryCall
<1>3. call' = call \/ call' = [call EXCEPT ![k] = NONE]
  BY DEF Entry, EntryCall, WriteBegins, CopyFromUser, WriteEnds, ReadBegins, PrintNext,
         ReadEnds, Reopen, Done
<1>4. HookInv'
  BY <1>1, <1>3 DEF Inv, HookInv, EntryInv, EntryType, Mine
<1> QED
  BY <1>2, <1>4 DEF Inv

LEMMA InitInv == Init => Inv
<1> SUFFICES ASSUME Init PROVE Inv
  OBVIOUS
<1> USE EntryAssumption DEF Init, EntryInit
<1>1. EntryType
  BY DEF EntryType
<1>2. CallInv /\ ReadInv
  BY DEF CallInv, ReadInv, Reading, Writing
<1>3. ValueInv
  BY DEF ValueInv, Holds, Writing
<1>4. HookInv
  BY DEF HookInv
<1> QED
  BY <1>1, <1>2, <1>3, <1>4 DEF Inv, EntryInv

LEMMA NextInv == Inv /\ [Next]_vars => Inv'
<1> SUFFICES ASSUME Inv, [Next]_vars PROVE Inv'
  OBVIOUS
<1>1. CASE Load
  BY <1>1, LoadInv
<1>2. CASE Unload
  BY <1>2, UnloadInv
<1>3. ASSUME NEW k \in Cpus, Body(k) PROVE Inv'
  BY <1>3, BodyInv
<1>4. ASSUME NEW k \in Cpus, Entry(k) PROVE Inv'
  BY <1>4, EntryStep
<1>5. ASSUME NEW k \in Cpus, NEW c \in Mine, Fire(k, c) PROVE Inv'
  BY <1>5, FireInv
<1>6. CASE UNCHANGED vars
  <2>1. EntryInv'
    BY <1>6, Frame DEF Inv, EntryInv, EntryType, vars, kernelVars, entryVars
  <2>2. HookInv'
    BY <1>6 DEF Inv, HookInv, vars, kernelVars, Mine
  <2> QED
    BY <2>1, <2>2 DEF Inv
<1> QED
  BY <1>1, <1>2, <1>3, <1>4, <1>5, <1>6 DEF Next

\* entry_read and foo_entry_show never print past the end of value, whatever
\* writers do meanwhile, and what they print when no write overlaps is the
\* text stored last.
THEOREM TextRead == Spec => []ReadsText
<1>1. Inv => ReadsText
  BY InvReads DEF Inv
<1> QED
  BY <1>1, InitInv, NextInv, PTL DEF Spec

------------------------------------------------------------------------------
(* What is hooked and what runs, in each phase of a module's life.         *)

Quiet == hooked = {} /\ Running = {}

\* The modules whose exit function waits for nothing.
Careless == {"timer", "tasklet", "work0"}

PhaseInv ==
    /\ mod \in {"find", "register", "free"} => program \in Traced
    /\ mod = "delete" => program = "timer"
    /\ mod \in {"init", "find", "failed", "free"} => Quiet
    /\ mod = "wait" => program \notin OneShot \cup Traced /\ hooked = {}
    /\ mod \in {"freed", "gone"} => Quiet \/ (program \in Careless /\ seen # {})
    /\ program \in Traced =>
          /\ mod \in {"register", "live"} => hooked \cap todo = {}
          /\ mod \notin {"init", "freed", "gone"} => percpu = Mine

LEMMA PhaseInit == Init => PhaseInv
BY DEF Init, PhaseInv, Quiet, Running, Traced

LEMMA PhaseMeaning == HookInv /\ PhaseInv => NothingLeft /\ CountersThere
<1> SUFFICES ASSUME HookInv, PhaseInv PROVE NothingLeft /\ CountersThere
  OBVIOUS
<1>1. NothingLeft
  BY DEF PhaseInv, NothingLeft, Quiet, Careless
<1>2. CountersThere
  <2>1. program \in Traced => Running \cup hooked \subseteq Mine
    BY DEF HookInv, Running, Traced
  <2>2. program \in Traced => program \notin Careless
    BY DEF Traced, Careless
  <2> QED
    BY <2>1, <2>2 DEF PhaseInv, CountersThere, Quiet
<1> QED
  BY <1>1, <1>2

LEMMA PhaseLoad == ASSUME HookInv, PhaseInv, Load PROVE PhaseInv'
<1>1. program' = program /\ call' = call /\ seen' = seen /\ Running' = Running /\ Mine' = Mine
  BY DEF Load, timer_example_module_init, tasklet_module_init, workqueue0_init,
         workqueue1_init, kprobe_init, irq_request_init, irq_test_init, proc_entry2_init,
         proc_entry1_init, proc_entry0_init, AllocPercpu, TracepointLookup,
         FindTracepoints, RegisterProbe, InitFails, Hook, HookFails, kernelVars, Running, Mine
<1> USE DEF PhaseInv, Quiet, Goto
<1>2. CASE Hook /\ program \notin Traced
  BY <1>1, <1>2 DEF Hook
<1>3. ASSUME NEW l \in {"failed", "live"}, HookFails(l), program \notin Traced  PROVE PhaseInv'
  BY <1>1, <1>3 DEF HookFails
<1>4. CASE AllocPercpu
  BY <1>1, <1>4 DEF AllocPercpu
<1>5. CASE TracepointLookup
  BY <1>1, <1>5 DEF TracepointLookup
<1>6. CASE FindTracepoints
  BY <1>1, <1>6 DEF FindTracepoints
<1>7. ASSUME NEW c \in Mine, RegisterProbe(c)  PROVE PhaseInv'
  BY <1>1, <1>7 DEF RegisterProbe
<1>8. CASE InitFails
  BY <1>1, <1>8 DEF InitFails
<1> QED
  BY <1>2, <1>3, <1>4, <1>5, <1>6, <1>7, <1>8
     DEF Load, timer_example_module_init, tasklet_module_init, workqueue0_init,
         workqueue1_init, kprobe_init, irq_request_init, irq_test_init, proc_entry2_init,
         proc_entry1_init, proc_entry0_init, Traced

\* No callback begins once nothing is hooked, and one that ends hooks itself
\* again only if it is the timer's.
LEMMA PhaseCall ==
    ASSUME PhaseInv, UNCHANGED <<program, mod, todo, percpu, seen>>,
           Quiet => Quiet',
           hooked' \subseteq hooked \/ (program = "timer" /\ Running # {})
    PROVE  PhaseInv'
<1>1. Mine' = Mine
  BY DEF Mine
<1>2. mod = "wait" => hooked' = {}
  BY DEF PhaseInv, OneShot
<1>3. program \in Traced /\ mod \in {"register", "live"} => hooked' \cap todo' = {}
  BY DEF PhaseInv, Traced
<1> HIDE DEF Quiet
<1> QED
  BY <1>1, <1>2, <1>3 DEF PhaseInv

LEMMA PhaseUnload == ASSUME HookInv, PhaseInv, Unload PROVE PhaseInv'
<1>1. program' = program /\ call' = call /\ Running' = Running /\ Mine' = Mine
  BY DEF Unload, ExitPending, ExitDelete, tasklet_module_exit, workqueue0_exit,
         workqueue1_exit, kprobe_exit, irq_request_exit, irq_test_exit, proc_entry2_exit,
         proc_entry1_exit, proc_entry0_exit, UnregisterProbe, Synchronize, FreePercpu,
         Gone, PrintOnly, Unhook, kernelVars, Running, Mine
<1> USE DEF PhaseInv, Quiet, Goto, Careless
<1>2. CASE ExitPending
  BY <1>1, <1>2 DEF ExitPending, Traced
<1>3. CASE ExitDelete
  BY <1>1, <1>3 DEF ExitDelete, Traced
<1>4. CASE tasklet_module_exit \/ workqueue0_exit
  BY <1>1, <1>4 DEF tasklet_module_exit, workqueue0_exit, PrintOnly, Traced
<1>5. CASE workqueue1_exit
  BY <1>1, <1>5 DEF workqueue1_exit, Traced
<1>6. CASE Unhook /\ program \notin OneShot \cup Traced
  BY <1>1, <1>6 DEF Unhook
<1>7. ASSUME NEW c \in Mine, UnregisterProbe(c)  PROVE PhaseInv'
  BY <1>1, <1>7 DEF UnregisterProbe
<1>8. CASE Synchronize
  BY <1>1, <1>8 DEF Synchronize, HookInv
<1>9. CASE FreePercpu
  BY <1>1, <1>9 DEF FreePercpu
<1>10. CASE Gone
  BY <1>1, <1>10 DEF Gone
<1> QED
  BY <1>2, <1>3, <1>4, <1>5, <1>6, <1>7, <1>8, <1>9, <1>10
     DEF Unload, kprobe_exit, irq_request_exit, irq_test_exit, proc_entry2_exit,
         proc_entry1_exit, proc_entry0_exit, OneShot, Traced

LEMMA PhaseNext == Inv /\ PhaseInv /\ [Next]_vars => PhaseInv'
<1> SUFFICES ASSUME Inv, PhaseInv, [Next]_vars PROVE PhaseInv'
  OBVIOUS
<1>1. HookInv /\ call \in [Cpus -> Names \cup {NONE}]
  BY DEF Inv, EntryInv, EntryType
<1>2. CASE Load
  BY <1>1, <1>2, PhaseLoad
<1>3. CASE Unload
  BY <1>1, <1>3, PhaseUnload
<1>4. ASSUME NEW k \in Cpus, Body(k)  PROVE PhaseInv'
  <2>1. /\ call[k] # NONE
        /\ UNCHANGED <<program, mod, todo, percpu, seen>>
        /\ hooked' = hooked \/ program = "timer"
    BY <1>4, CallbackAssumption DEF Body, Expire, ExpireReturns, Probe, handler_pre,
         example_interrupt, intr_handler, tasklet_hello, pet_entry_show, work_func, Counts,
         Return, kernelVars
  <2>2. Running # {}
    BY <2>1 DEF Running
  <2>3. Quiet => Quiet'
    BY <2>2 DEF Quiet
  <2> QED
    BY <2>1, <2>2, <2>3, PhaseCall
<1>5. ASSUME NEW k \in Cpus, Entry(k)  PROVE PhaseInv'
  <2>1. /\ call' = call \/ call' = [call EXCEPT ![k] = NONE]
        /\ UNCHANGED <<program, mod, todo, percpu, seen, hooked>>
    BY <1>5 DEF Entry, EntryCall, WriteBegins, CopyFromUser, WriteEnds, ReadBegins, PrintNext,
         ReadEnds, Reopen, Done
  <2>2. Running' \subseteq Running
    BY <1>1, <2>1 DEF Running
  <2>3. Quiet => Quiet'
    BY <2>1, <2>2 DEF Quiet
  <2> QED
    BY <2>1, <2>3, PhaseCall
<1>6. ASSUME NEW k \in Cpus, NEW c \in Mine, Fire(k, c)  PROVE PhaseInv'
  <2>1. /\ c \in hooked /\ hooked' \subseteq hooked
        /\ UNCHANGED <<program, mod, todo, percpu, seen>>
    BY <1>6 DEF Fire, kernelVars
  <2>2. Quiet => Quiet'
    BY <2>1 DEF Quiet
  <2> QED
    BY <2>1, <2>2, PhaseCall
<1>7. CASE UNCHANGED vars
  <2>1. UNCHANGED <<program, mod, todo, percpu, seen, hooked>> /\ Running' = Running
    BY <1>7 DEF vars, kernelVars, Running
  <2>2. Quiet => Quiet'
    BY <2>1 DEF Quiet
  <2> QED
    BY <2>1, <2>2, PhaseCall
<1> QED
  BY <1>2, <1>3, <1>4, <1>5, <1>6, <1>7 DEF Next

LEMMA PhaseAlways == Spec => [](HookInv /\ PhaseInv)
<1>1. Inv => HookInv
  BY DEF Inv
<1> QED
  BY <1>1, InitInv, NextInv, PhaseInit, PhaseNext, PTL DEF Spec

\* A module that is gone leaves no pointer to its functions in the kernel and
\* no callback running, on any number of processors and whichever registrations
\* failed; timer, tasklet and workqueue0 only if their exit met no callback.
THEOREM UnloadsClean == Spec => []NothingLeft
BY PhaseAlways, PhaseMeaning, PTL

\* A probe of sched_display or tracepoint_example has its counter allocated
\* whenever the kernel may call it or still runs it.
THEOREM ProbesCount == Spec => []CountersThere
BY PhaseAlways, PhaseMeaning, PTL

------------------------------------------------------------------------------
(* The timer.                                                              *)

\* One handler runs at most; the timer is not armed before its handler arms it
\* again; and after the last expiry it is not armed, nor has its handler begun.
ExpiryInv ==
    program = "timer" =>
        /\ count \in 0 .. LastExpiry
        /\ \A j, k \in Cpus : call[j] # NONE /\ call[k] # NONE => j = k
        /\ \A k \in Cpus : call[k] = "callback" => hooked = {}
        /\ mod = "init" => count = 0
        /\ count = LastExpiry => hooked = {} /\ \A k \in Cpus : call[k] # "callback"

LEMMA ExpiryInit == Init => ExpiryInv
BY CallbackAssumption DEF Init, ExpiryInv

LEMMA ExpiryNext == Inv /\ PhaseInv /\ ExpiryInv /\ [Next]_vars => ExpiryInv'
<1> SUFFICES ASSUME Inv, PhaseInv, ExpiryInv, [Next]_vars, program = "timer" PROVE ExpiryInv'
  <2>1. [Next]_vars => program' = program
    BY DEF Next, Load, timer_example_module_init, tasklet_module_init, workqueue0_init,
         workqueue1_init, kprobe_init, irq_request_init, irq_test_init, proc_entry2_init,
         proc_entry1_init, proc_entry0_init, AllocPercpu, TracepointLookup,
         FindTracepoints, RegisterProbe, InitFails, Hook, HookFails, Body, Expire, ExpireReturns, Probe,
         handler_pre, example_interrupt, intr_handler, tasklet_hello, pet_entry_show,
         work_func, Counts, Entry, Fire, Unload, ExitPending, ExitDelete,
         tasklet_module_exit, workqueue0_exit, workqueue1_exit, kprobe_exit,
         irq_request_exit, irq_test_exit, proc_entry2_exit, proc_entry1_exit,
         proc_entry0_exit, UnregisterProbe, Synchronize, FreePercpu, Gone, PrintOnly,
         Unhook, kernelVars, vars
  <2> QED
    BY <2>1 DEF ExpiryInv
<1>1. /\ call \in [Cpus -> Names \cup {NONE}] /\ Mine = {"callback"}
      /\ hooked \subseteq {"callback"} /\ \A k \in Cpus : call[k] \in {"callback", "rearmed", NONE}
      /\ NONE \notin {"callback", "rearmed"}
  BY CallbackAssumption DEF Inv, EntryInv, EntryType, HookInv, Mine, Callbacks, Entries
<1>2. /\ count \in 0 .. LastExpiry /\ LastExpiry \in Nat \ {0}
      /\ \A j, k \in Cpus : call[j] # NONE /\ call[k] # NONE => j = k
      /\ \A k \in Cpus : call[k] = "callback" => hooked = {}
      /\ mod = "init" => count = 0
      /\ count = LastExpiry => hooked = {} /\ \A k \in Cpus : call[k] # "callback"
  BY CallbackAssumption DEF ExpiryInv
<1> USE DEF ExpiryInv
<1>3. CASE Hook
  <2>1. mod = "init" /\ mod' = "live" /\ UNCHANGED <<call, count>> /\ count = 0
    BY <1>2, <1>3 DEF Hook, Goto
  <2>2. \A k \in Cpus : call[k] = NONE
    BY <1>1, <2>1 DEF PhaseInv, Quiet, Running
  <2> QED
    BY <1>1, <1>2, <2>1, <2>2
<1>4. ASSUME UNCHANGED <<call, count>>, hooked' \subseteq hooked, mod' # "init" \/ mod = "init"
      PROVE  ExpiryInv'
  BY <1>1, <1>2, <1>4
<1>5. CASE Unload
  BY <1>4, <1>5 DEF Unload, ExitPending, ExitDelete, tasklet_module_exit, workqueue0_exit,
         workqueue1_exit, kprobe_exit, irq_request_exit, irq_test_exit, proc_entry2_exit,
         proc_entry1_exit, proc_entry0_exit, UnregisterProbe, Synchronize, FreePercpu,
         Gone, PrintOnly, Unhook, Goto
<1>6. CASE Load /\ ~ Hook
  BY <1>4, <1>6 DEF Load, timer_example_module_init, AllocPercpu, TracepointLookup,
         FindTracepoints, RegisterProbe, InitFails, Goto, PhaseInv, Traced,
         tasklet_module_init, workqueue0_init, workqueue1_init, kprobe_init, irq_request_init,
         irq_test_init, proc_entry2_init, proc_entry1_init, proc_entry0_init
<1>7. ASSUME NEW k \in Cpus, Body(k)  PROVE ExpiryInv'
  <2>1. CASE Expire(k)
    <3>1. /\ call[k] = "callback" /\ call' = [call EXCEPT ![k] = "rearmed"] /\ mod' = mod
          /\ count' = count + 1 /\ hooked' = IF count' = LastExpiry THEN {} ELSE Mine
      BY <2>1 DEF Expire
    <3>2. call'[k] = "rearmed" /\ \A j \in Cpus \ {k} : call'[j] = NONE
      BY <1>1, <1>2, <3>1
    <3>3. \A j \in Cpus : call'[j] # "callback" /\ (call'[j] # NONE => j = k)
      BY <1>1, <3>2
    <3>4. mod # "init"
      BY <1>1, <3>1 DEF PhaseInv, Quiet, Running
    <3>5. count' \in 0 .. LastExpiry
      BY <1>2, <3>1
    <3> QED
      BY <3>1, <3>3, <3>4, <3>5
  <2>2. CASE ExpireReturns(k)
    <3>1. call' = [call EXCEPT ![k] = NONE] /\ UNCHANGED <<mod, count, hooked>>
      BY <2>2 DEF ExpireReturns, Return
    <3>2. \A j \in Cpus : call'[j] = call[j] \/ call'[j] = NONE
      BY <1>1, <3>1
    <3> QED
      BY <1>1, <1>2, <3>1, <3>2
  <2> QED
    BY <1>7, <2>1, <2>2 DEF Body, Probe, handler_pre, example_interrupt, intr_handler,
         tasklet_hello, pet_entry_show, work_func, Traced
<1>8. ASSUME NEW k \in Cpus, NEW c \in Mine, Fire(k, c)  PROVE ExpiryInv'
  <2>1. /\ c \in hooked /\ call' = [call EXCEPT ![k] = c] /\ hooked' = hooked \ {c}
        /\ UNCHANGED <<mod, count>> /\ \A j \in Cpus : call[j] = NONE
    BY <1>8 DEF Fire, OneShot, Running
  <2>2. c = "callback" /\ hooked' = {} /\ hooked # {}
    BY <1>1, <2>1
  <2>3. \A j \in Cpus : call'[j] # NONE => j = k
    BY <1>1, <2>1, <2>2
  <2> QED
    BY <1>1, <1>2, <2>1, <2>2, <2>3
<1>9. ASSUME NEW k \in Cpus, Entry(k)  PROVE ExpiryInv'
  BY <1>9 DEF Entry, Entries
<1>10. CASE UNCHANGED vars
  BY <1>4, <1>10 DEF vars, kernelVars
<1> QED
  BY <1>3, <1>5, <1>6, <1>7, <1>8, <1>9, <1>10 DEF Next

\* The safety part of TimerStops: the timer expires at most LastExpiry times,
\* and the kernel does not hold it after the last.
THEOREM TimerLimit ==
    Spec => [](program = "timer" => count <= LastExpiry /\ (count = LastExpiry => hooked = {}))
<1>1. ExpiryInv => (program = "timer" => count <= LastExpiry /\ (count = LastExpiry => hooked = {}))
  BY CallbackAssumption DEF ExpiryInv
<1> QED
  BY <1>1, InitInv, NextInv, PhaseInit, PhaseNext, ExpiryInit, ExpiryNext, PTL DEF Spec

=============================================================================
