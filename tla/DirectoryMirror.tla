--------------------------- MODULE DirectoryMirror ---------------------------
(***************************************************************************)
(* What the runtime is promised about the vault's folders: it hears of     *)
(* every rename after all earlier ones, or is asked to read the whole      *)
(* vault.  A rename's paths mean something only to who knows the renames   *)
(* before it.  What it declines to hear of, and what is renamed while its  *)
(* word on the whole vault is still on its way, it misses until it reads   *)
(* the vault again.                                                        *)
(***************************************************************************)
EXTENDS Naturals

VARIABLES
  renames,  \* how many folders were renamed so far
  known,    \* the renames that the runtime knows of
  missed,   \* the renames since it last read the vault that it will not hear of
  settling  \* its word on the whole vault is on its way

Init == renames = 0 /\ known = {} /\ missed = {} /\ ~settling

Rename ==
  /\ renames' = renames + 1
  /\ missed' = IF settling THEN missed \cup {renames + 1} ELSE missed
  /\ UNCHANGED <<known, settling>>

(* It is the turn of rename n: all earlier ones are dealt with.            *)
Turn(n) == 1..(n - 1) \subseteq known \cup missed

Learn(n) ==
  /\ Turn(n)
  /\ known' = known \cup {n}
  /\ UNCHANGED <<renames, missed, settling>>

Decline(n) ==
  /\ Turn(n)
  /\ missed' = missed \cup {n}
  /\ UNCHANGED <<renames, known, settling>>

(* The whole vault, read or declined                                       *)
Scan ==
  /\ \/ known' = 1..renames /\ missed' = {}
     \/ missed' = 1..renames /\ UNCHANGED known
  /\ settling' \in BOOLEAN
  /\ UNCHANGED renames

(* Its word on the whole vault arrives, or is not waited for any more.     *)
Settled == settling /\ ~settling' /\ UNCHANGED <<renames, known, missed>>

Next == Rename \/ Scan \/ Settled \/ \E n \in 1..renames : Learn(n) \/ Decline(n)

Spec == Init /\ [][Next]_<<renames, known, missed, settling>>
=============================================================================
