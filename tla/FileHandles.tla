---------------------------- MODULE FileHandles -----------------------------
(***************************************************************************)
(* What loading a binary promises: the client that opens a file gets the   *)
(* image the file has at some moment of the call, keeps that very image    *)
(* whatever other clients do and however often the file is replaced, and   *)
(* gives it back when it closes it.                                        *)
(***************************************************************************)
EXTENDS Naturals

CONSTANTS
  Clients,
  Files,
  None,        \* a client that has nothing open
  MaxVersion   \* bound on how often a file is replaced

VARIABLES
  disk,     \* the version of each file; 0: no file
  handle    \* the image each client has open

Init ==
  /\ disk \in [Files -> {0, 1}]
  /\ handle = [c \in Clients |-> None]

Replace(f) ==
  /\ disk[f] < MaxVersion
  /\ disk' = [disk EXCEPT ![f] = @ + 1]
  /\ UNCHANGED handle

Open(c, f) ==
  /\ handle[c] = None /\ disk[f] > 0
  /\ handle' = [handle EXCEPT ![c] = [file |-> f, version |-> disk[f]]]
  /\ UNCHANGED disk

Close(c) ==
  /\ handle' = [handle EXCEPT ![c] = None]
  /\ UNCHANGED disk

Next ==
  \/ \E f \in Files : Replace(f)
  \/ \E c \in Clients : Close(c) \/ \E f \in Files : Open(c, f)

Spec == Init /\ [][Next]_<<disk, handle>>
=============================================================================
