------------------------------ MODULE Isolation ------------------------------
(***************************************************************************)
(* What the isolation ledger of internal/ban promises, without keys, rows  *)
(* and indexes: a credential is held back until the last of its ends has   *)
(* passed, and no longer.  An isolation adds an end and may replace others *)
(* of the same credential, a release takes ends of one credential away, a  *)
(* reload puts what a saved image says in the place of everything, and     *)
(* whatever else the ledger does holds and frees nobody.                   *)
(***************************************************************************)
EXTENDS Naturals

CONSTANTS Credentials, Spans,
          Images   \* what a file may hold: credential -> the ends of its rows

VARIABLES ends,  \* credential -> the moments its isolations still end at
          now

Held(c) == ends[c] # {}

Init == ends = [c \in Credentials |-> {}] /\ now = 0

Alter(c, left) == ends' = [ends EXCEPT ![c] = left]

\* The new end is the span from now, or one the credential already had and that
\* comes later.
Isolate(c, span) ==
  /\ \E kept \in SUBSET ends[c], end \in {now + span} \cup {e \in ends[c] : e > now + span} :
       Alter(c, kept \cup {end})
  /\ UNCHANGED now

Release(c) ==
  /\ \E kept \in SUBSET ends[c] : Alter(c, kept)
  /\ UNCHANGED now

ReleaseAll == ends' = [c \in Credentials |-> {}] /\ UNCHANGED now

\* Of two rows the file has for one credential, either may be left.
Lasting(image, c) == {e \in image[c] : e > now}

Restore(image) ==
  /\ DOMAIN ends' = Credentials
  /\ \A c \in Credentials : /\ ends'[c] \subseteq Lasting(image, c)
                            /\ Lasting(image, c) # {} => Held(c)'
  /\ UNCHANGED now

Tick ==
  /\ now' = now + 1
  /\ ends' = [c \in Credentials |-> {e \in ends[c] : e > now'}]

Next ==
  \/ \E c \in Credentials : Release(c) \/ \E span \in Spans : Isolate(c, span)
  \/ \E image \in Images : Restore(image)
  \/ ReleaseAll \/ Tick

Spec == Init /\ [][Next]_<<ends, now>>
=============================================================================
