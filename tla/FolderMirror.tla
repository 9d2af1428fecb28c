---------------------------- MODULE FolderMirror ----------------------------
(***************************************************************************)
(* What a folder sync promises, whatever it is carried by: a destination   *)
(* folder seen as the contents of its regular files, and runs that each    *)
(* offer a list of files.  A file appears exactly as it was read or not at *)
(* all, a file that is not offered disappears only with the user's consent *)
(* and only once everything offered is in place, and a run is a success    *)
(* only when the destination holds what was offered or what was read       *)
(* instead of it.                                                          *)
(***************************************************************************)
EXTENDS Naturals

CONSTANTS
  File,        \* names of regular files
  Content,     \* contents of files
  Missing      \* no such file; not a content

VARIABLES
  mirror,      \* the destination
  offer,       \* what the current run offers, by name
  read,        \* what was last read of an offered file, or compared equal
  arrived,     \* names put in place by the current run
  verdict,     \* "open", "success" or "failure"
  hollow,      \* the current run offers nothing at all
  consent      \* deletions: "never", "always", "careful" (not in a hollow run)

mirrorVars == <<mirror, offer, read, arrived, verdict, hollow, consent>>

Offered == {f \in File : offer[f] # Missing}
InPlace(f) == mirror[f] = read[f] /\ (f \in arrived \/ read[f] = offer[f])

Init ==
  /\ mirror \in [File -> Content \cup {Missing}]
  /\ offer = [f \in File |-> Missing] /\ read = offer /\ arrived = {}
  /\ verdict = "failure" /\ hollow = TRUE
  /\ consent \in {"never", "careful", "always"}

Begin ==
  /\ verdict # "open" /\ verdict' = "open"
  /\ offer' \in [File -> Content \cup {Missing}]
  /\ read' = [f \in File |-> Missing] /\ arrived' = {}
  /\ hollow' \in BOOLEAN /\ (hollow' => Offered' = {})
  /\ UNCHANGED <<mirror, consent>>

\* The content may be newer than the offer, mixed or cut short: the source file
\* may have changed.
Read ==
  /\ verdict # "success"
  /\ read' \in [File -> Content \cup {Missing}]
  /\ \A f \in File : read'[f] # read[f] => f \in Offered
  /\ UNCHANGED <<mirror, offer, arrived, verdict, hollow, consent>>

Place(f) ==
  /\ verdict = "open" /\ f \in Offered /\ read[f] # Missing
  /\ mirror' = [mirror EXCEPT ![f] = read[f]]
  /\ arrived' = arrived \cup {f}
  /\ UNCHANGED <<offer, read, verdict, hollow, consent>>

Prune(gone) ==
  /\ verdict = "open"
  /\ consent = "always" \/ (consent = "careful" /\ ~hollow)
  /\ gone \cap Offered = {} /\ \A f \in Offered : InPlace(f)
  /\ mirror' = [f \in File |-> IF f \in gone THEN Missing ELSE mirror[f]]
  /\ UNCHANGED <<offer, read, arrived, verdict, hollow, consent>>

Succeed ==
  /\ verdict = "open" /\ \A f \in Offered : InPlace(f)
  /\ verdict' = "success"
  /\ UNCHANGED <<mirror, offer, read, arrived, hollow, consent>>

Fail ==
  /\ verdict = "open" /\ verdict' = "failure"
  /\ UNCHANGED <<mirror, offer, read, arrived, hollow, consent>>

Next ==
  \/ Begin \/ Read \/ Succeed \/ Fail
  \/ \E f \in File : Place(f)
  \/ \E gone \in SUBSET File : Prune(gone)

Spec == Init /\ [][Next]_mirrorVars
=============================================================================
