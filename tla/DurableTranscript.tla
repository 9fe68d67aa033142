-------------------------- MODULE DurableTranscript --------------------------
(***************************************************************************)
(* What the session store promises its clients, with no files in it: one   *)
(* transcript that changes in a single step, only to the value the one     *)
(* client in the middle of a save is saving.  A client that is told its    *)
(* save succeeded is told so while the transcript is exactly what it       *)
(* saved.  A crash of the client loses the save or keeps it whole; a power *)
(* cut may take back what was appended since the last synced write, and    *)
(* nothing before it.  SessionStore implements this specification.         *)
(***************************************************************************)
EXTENDS Naturals, Sequences

CONSTANTS
  Client,   \* the runtimes that load and save the session
  Text,     \* the transcripts
  None      \* no transcript, no client

VARIABLES
  text,     \* the transcript a load returns now, None before the first save
  stable,   \* the part of it that survives a power cut
  owner,    \* the client in the middle of a save, or None
  pending,  \* what the owner is saving, or None
  known     \* per client: the transcript it last loaded or was told is saved

vars == <<text, stable, owner, pending, known>>

Prefix(p, t) ==
  \/ p = None
  \/ /\ p # None
     /\ t # None
     /\ Len(p) <= Len(t)
     /\ \A i \in 1..Len(p) : p[i] = t[i]

Init ==
  /\ text = None
  /\ stable = None
  /\ owner = None
  /\ pending = None
  /\ known = [c \in Client |-> None]

\* A client loads the transcript, or learns it is saved already.
Load(c) ==
  /\ known' = [known EXCEPT ![c] = text]
  /\ UNCHANGED <<text, stable, owner, pending>>

Begin(c) ==
  /\ owner = None
  /\ owner' = c
  /\ pending' \in Text
  /\ UNCHANGED <<text, stable, known>>

\* The save takes effect, once and whole.
Land ==
  /\ owner # None
  /\ text' = pending
  /\ stable' \in {stable, pending}
  /\ Prefix(stable', text')
  /\ UNCHANGED <<owner, pending, known>>

Confirm ==
  /\ owner # None
  /\ text = pending
  /\ known' = [known EXCEPT ![owner] = pending]
  /\ owner' = None
  /\ pending' = None
  /\ UNCHANGED <<text, stable>>

\* The save is given up, before or after it took effect.
Abandon ==
  /\ owner # None
  /\ owner' = None
  /\ pending' = None
  /\ UNCHANGED <<text, stable, known>>

Crash(c) ==
  /\ known' = [known EXCEPT ![c] = None]
  /\ owner' = IF owner = c THEN None ELSE owner
  /\ pending' = IF owner = c THEN None ELSE pending
  /\ UNCHANGED <<text, stable>>

PowerCut ==
  /\ text' \in Text \cup {None}
  /\ Prefix(stable, text')
  /\ Prefix(text', text)
  /\ owner' = None
  /\ pending' = None
  /\ known' = [c \in Client |-> None]
  /\ UNCHANGED stable

Next ==
  \/ \E c \in Client : Load(c) \/ Begin(c) \/ Crash(c)
  \/ Land
  \/ Confirm
  \/ Abandon
  \/ PowerCut

Spec == Init /\ [][Next]_vars
=============================================================================
