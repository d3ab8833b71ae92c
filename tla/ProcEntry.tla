----------------------------- MODULE ProcEntry -----------------------------
(***************************************************************************)
(* The text that a file of /proc keeps in proc_entry_normal_file           *)
(* ("normal") and proc_entry_seq_file ("seq"): entry_read and entry_write, *)
(* foo_entry_show and foo_entry_write, with no lock between them.  Texts   *)
(* are copied character by character; task k writes texts of one           *)
(* character, k, and 0 is the terminator.                                  *)
(***************************************************************************)
EXTENDS Integers, Sequences, FiniteSets

CONSTANTS
    Cpus,           \* a task on each processor, with a file of its own
    ENTRY_LEN,
    NONE

\* 60 in the code.  Characters are tasks, the terminator and NONE are neither.
ASSUME EntryAssumption ==
    /\ ENTRY_LEN \in Nat \ {0}
    /\ NONE \notin Nat \cup Cpus /\ NONE \notin {"read", "write"}
    /\ 0 \notin Cpus

VARIABLES
    program,    \* the module; it never changes
    call,       \* call[k]: what processor k runs of the module, or NONE
    value,      \* the array of ENTRY_LEN characters
    size,       \* size[k]: of the text that k writes; NONE before copying begins
    copied,     \* copied[k]: what k has read or written of it
    moved,      \* the tasks whose file offset is not 0
    lone,       \* the task that has been the only writer since it began, or NONE
    stored,     \* {the text stored last}, or {} if writes overlapped or failed
    expected    \* expected[k]: that of when k began to read, {} if it was written since

entryVars == <<value, size, copied, moved, lone, stored, expected>>

Text(k, n) == [m \in 1 .. n |-> k]

EntryInit ==
    /\ value = [n \in 0 .. ENTRY_LEN - 1 |-> 0]
    /\ size = [k \in Cpus |-> NONE]
    /\ copied = [k \in Cpus |-> <<>>]
    /\ moved = {} /\ lone = NONE /\ stored = {<<>>}
    /\ expected = [k \in Cpus |-> {}]

Writing == {k \in Cpus : call[k] = "write" /\ size[k] # NONE}

Done(k) ==
    /\ call' = [call EXCEPT ![k] = NONE]
    /\ size' = [size EXCEPT ![k] = NONE]

\* A text that is too long is refused.
WriteBegins(k) ==
    /\ call[k] = "write" /\ size[k] = NONE
    /\ \E n \in 0 .. ENTRY_LEN :
        IF n > ENTRY_LEN - 1
        THEN Done(k) /\ UNCHANGED <<copied, lone, stored, expected>>
        ELSE /\ size' = [size EXCEPT ![k] = n]
             /\ copied' = [copied EXCEPT ![k] = <<>>]
             /\ lone' = IF Writing = {} THEN k ELSE NONE
             /\ stored' = {}
             /\ expected' = [j \in Cpus |-> {}]
             /\ UNCHANGED call
    /\ UNCHANGED <<value, moved>>

\* copy_from_user: one more character, or a fault, and the call fails.
CopyFromUser(k) ==
    /\ k \in Writing
    /\ \/ /\ Len(copied[k]) < size[k]
          /\ value' = [value EXCEPT ![Len(copied[k])] = k]
          /\ copied' = [copied EXCEPT ![k] = Append(@, k)]
          /\ UNCHANGED <<call, size, lone>>
       \/ /\ Done(k)
          /\ lone' = NONE
          /\ UNCHANGED <<value, copied>>
    /\ UNCHANGED <<moved, stored, expected>>

\* Mutant: the terminator is left to whoever writes.
WriteNoEnd(k) ==
    /\ k \in Writing /\ Len(copied[k]) = size[k]
    /\ moved' = IF size[k] > 0 THEN moved \cup {k} ELSE moved
    /\ stored' = IF lone = k THEN {copied[k]} ELSE {}
    /\ lone' = NONE
    /\ Done(k)
    /\ UNCHANGED <<value, copied, expected>>

\* The terminator, and the offset.
WriteEnds(k) ==
    /\ k \in Writing /\ Len(copied[k]) = size[k]
    /\ value' = [value EXCEPT ![size[k]] = 0]
    /\ moved' = IF size[k] > 0 THEN moved \cup {k} ELSE moved
    /\ stored' = IF lone = k THEN {copied[k]} ELSE {}
    /\ lone' = NONE
    /\ Done(k)
    /\ UNCHANGED <<copied, expected>>

\* "normal" is at the end of the file once the offset has moved.
ReadBegins(k) ==
    /\ call[k] = "read" /\ size[k] = NONE
    /\ IF program = "normal" /\ k \in moved
       THEN Done(k) /\ UNCHANGED <<copied, expected>>
       ELSE /\ size' = [size EXCEPT ![k] = 0]
            /\ copied' = [copied EXCEPT ![k] = <<>>]
            /\ expected' = [expected EXCEPT ![k] = stored]
            /\ UNCHANGED call
    /\ UNCHANGED <<value, moved, lone, stored>>

Reading(k) == call[k] = "read" /\ size[k] # NONE

AtEnd(k) == value[Len(copied[k])] = 0

\* The %s of sprintf and seq_printf.
PrintNext(k) ==
    /\ Reading(k) /\ ~AtEnd(k)
    /\ copied' = [copied EXCEPT ![k] = Append(@, value[Len(@)])]
    /\ UNCHANGED <<call, value, size, moved, lone, stored, expected>>

\* The offset moves, unless the reader's buffer is too small or faulty.
ReadEnds(k) ==
    /\ Reading(k) /\ AtEnd(k)
    /\ moved' \in {moved, moved \cup {k}}
    /\ Done(k)
    /\ UNCHANGED <<value, copied, lone, stored, expected>>

\* The file is closed and opened again.
Reopen(k) ==
    /\ call[k] = NONE /\ k \in moved
    /\ moved' = moved \ {k}
    /\ UNCHANGED <<call, value, size, copied, lone, stored, expected>>

EntryCall(k) ==
    \/ WriteBegins(k) \/ CopyFromUser(k) \/ WriteEnds(k)
    \/ ReadBegins(k) \/ PrintNext(k) \/ ReadEnds(k)

\* A reader finds a terminator before the end of the array, whatever writers
\* do at the same time; and if no write overlaps it, and the last one neither
\* failed nor overlapped another, the text that it takes is the one stored.
ReadsText ==
    \A k \in Cpus : Reading(k) =>
        /\ Len(copied[k]) < ENTRY_LEN
        /\ AtEnd(k) => \A s \in expected[k] : copied[k] = s
=============================================================================
