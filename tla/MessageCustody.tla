--------------------------- MODULE MessageCustody ---------------------------
(***************************************************************************)
(* What the native queue promises the sender of a message: it is in one    *)
(* place at a time, it enters Codex's history at most once and never       *)
(* leaves it, it is called ended only while the runtime has it in its own  *)
(* hands, and an ended message is never sent.  NativeQueue implements it.  *)
(***************************************************************************)
CONSTANTS Messages

VARIABLES custody   \* where each message is

(* "codex": a request with the payload is on its way or Codex queued it;   *)
(* "proven": the sender has been told of the delivery.                     *)
Custodies == {"absent", "journal", "codex", "history", "proven", "ended"}

Init == custody = [m \in Messages |-> "absent"]

Goes(m, from, to) ==
    /\ custody[m] = from
    /\ custody' = [custody EXCEPT ![m] = to]

Admit(m) == Goes(m, "absent", "journal")
HandOver(m) == Goes(m, "journal", "codex")
TakeBack(m) == Goes(m, "codex", "journal")
Show(m) == Goes(m, "codex", "history")
Prove(m) == Goes(m, "history", "proven")
End(m) == Goes(m, "journal", "ended")

Next ==
    \E m \in Messages :
        Admit(m) \/ HandOver(m) \/ TakeBack(m) \/ Show(m) \/ Prove(m) \/ End(m)

Spec == Init /\ [][Next]_custody
=============================================================================
