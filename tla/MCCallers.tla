------------------------------- MODULE MCCallers -------------------------------
(* A small instance of Callers for TLC.                                     *)
EXTENDS Callers

V(n) == [header |-> n, code |-> n]

MCFirst == V(1)

(* Two releases, a file without a header, and a release whose header was    *)
(* raised without the version in its code.                                  *)
MCScripts == {V(1), V(2), [header |-> 0, code |-> 4], [header |-> 3, code |-> 2]}

AllFaults == {"download", "backup", "install", "kill"}

================================================================================
