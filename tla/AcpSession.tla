----------------------------- MODULE AcpSession -----------------------------
(***************************************************************************)
(* One session id of the editor protocol, internal/acp/service.go: the     *)
(* requests of the client run in goroutines of their own, over a registry  *)
(* of open sessions, a session mutex, a queue of one configuration change, *)
(* and a lease that must follow the transcript when a save recovers onto a *)
(* branch. Other runtimes compete for the leases, and the process may end. *)
(*                                                                         *)
(* A step is one critical section of service.mu or acpSession.mu, one save *)
(* of the controller, or one file operation.                               *)
(***************************************************************************)
EXTENDS FiniteSets

CONSTANTS
    Request,   \* the goroutines that serve requests, one request each
    Kind,      \* bound: the requests of this instance
    Session,   \* the acpSession objects the id may get, one per opening
    Ctrl,      \* bound: the controllers that are referred to at a time
    Config,    \* the configurations (model and effort) a client may choose
    Default,   \* the configuration a session is opened with
    Main,      \* the transcript keyed by the session id
    Branch,    \* bound: the recovery branches a save may end on
    First,     \* the session object of session/new
    None       \* no request, session, controller, configuration or path

ASSUME NoneAssumption ==
    None \notin Request \cup Session \cup Ctrl \cup Config \cup Branch \cup {Main}
ASSUME MainAssumption == Main \notin Branch
ASSUME FirstAssumption == First \in Session /\ Default \in Config /\ Ctrl # {}

Path == {Main} \cup Branch

\* Where the goroutine of a request is: the step it takes next.
Pc == {"idle", "done",
       "begin", "enter", "turn", "persist", "stamp", "finish",        \* a prompt
       "save", "follow", "secure", "assign", "redirect", "commit",    \* a save
       "apply", "copy", "drop",                                       \* the queue
       "claim", "build", "swap", "retire", "unwind", "abandon",       \* a rebuild
       "abort", "wait", "shut", "release",                            \* a close
       "destroy", "erase", "twin", "linger",                \* a deletion
       "resolve", "acquire", "read", "meta", "register"}              \* a load

VARIABLES
    live,      \* service.sessions[id]
    sess,      \* the session objects
    path,      \* Controller.sessionPath
    closed,    \* the controllers that are closed
    req,       \* the goroutines and their local variables
    waits,     \* the turns and maintenances a closing goroutine waits for
    cancelled, \* the requests whose turn context is cancelled
    lock,      \* the session lease of each path: free, ours or another's
    disk,      \* the transcripts that exist
    metas,     \* the .acp.json sidecars that exist and claim the id
    redirect,  \* ActiveTranscript in the sidecar of Main
    cleanup,   \* the paths that are marked as pending cleanup
    home,      \* history: the transcript last written for the id
    last,      \* history: the configuration last accepted for each session
    gone,      \* history: a deletion of the id has been answered
    amiss      \* history: the ways around the protocol that were taken

fileVars == <<lock, disk, metas, redirect, cleanup>>
history  == <<home, last, gone, amiss>>
vars     == <<live, sess, path, closed, req, waits, cancelled, fileVars, history>>

\* acpSession: turn is the request that runs one (running, cancel and done),
\* maint the one that owns maintenanceDone, lease the path it guards.
Opened(c, g, p) == [ctrl |-> c, config |-> g, pending |-> None, turn |-> None,
                    maint |-> None, deleted |-> FALSE, transcript |-> p, lease |-> p]
Unopened == [Opened(None, Default, Main) EXCEPT !.lease = None]

\* A goroutine: the session and the controllers it holds in local variables, the
\* configuration it applies, whether applyPendingSessionConfig has called it,
\* what its save or its wait is for, the path it is about, and the session that
\* is to follow a recovery.
Unserved == [pc |-> "idle", on |-> None, ctrl |-> None, next |-> None, want |-> None,
             via |-> FALSE, phase |-> "turn", at |-> Main, to |-> None]

Init ==
    /\ live = First
    /\ sess = [s \in Session |->
                 IF s = First THEN Opened(CHOOSE c \in Ctrl : TRUE, Default, Main)
                              ELSE Unopened]
    /\ path = [c \in Ctrl |-> Main]
    /\ closed = {}
    /\ req = [r \in Request |-> Unserved]
    /\ waits = [r \in Request |-> {}]
    /\ cancelled = {}
    /\ lock = [p \in Path |-> IF p = Main THEN "ours" ELSE "free"]
    /\ disk = {}
    /\ metas = {}
    /\ redirect = None
    /\ cleanup = {}
    /\ home = None
    /\ last = [s \in Session |-> Default]
    /\ gone = FALSE
    /\ amiss = {}

-----------------------------------------------------------------------------
(* Helpers. *)

At(r, p) == req[r].pc = p
Goto(r, p) == req' = [req EXCEPT ![r].pc = p]
On(r) == sess[req[r].on]

\* A goroutine leaves, and its local variables with it.
End(r) == req' = [req EXCEPT ![r] = [Unserved EXCEPT !.pc = "done"]]

\* The first step of a request that has looked up the session.
Serve(k, r, s, p) ==
    /\ k \in Kind /\ At(r, "idle")
    /\ req' = [req EXCEPT ![r].pc = p, ![r].on = s]

\* resolveTranscriptPath: the redirect counts while its target claims the id.
Resolve == IF redirect \in disk \cap metas THEN redirect ELSE Main

\* A controller nobody refers to, for the one that is built next.
FreeCtrls == {c \in Ctrl : /\ \A s \in Session : sess[s].ctrl # c
                           /\ \A r \in Request : req[r].ctrl # c /\ req[r].next # c}

\* A session object that has not been used, and that no load has in hand.
FreeSessions == {s \in Session : /\ sess[s].ctrl = None
                                 /\ \A r \in Request : req[r].on # s}

\* The goroutines that wait for the turn or the maintenance of r go on.
Wake(r, what) == waits' = [q \in Request |-> waits[q] \ {<<what, r>>}]

\* saveACPMeta beside transcript p: a sidecar of Main loses its redirect.
SaveMeta(p) ==
    /\ metas' = metas \cup {p}
    /\ redirect' = IF p = Main THEN None ELSE redirect

Unlock(p) == lock' = IF p = None THEN lock ELSE [lock EXCEPT ![p] = "free"]

-----------------------------------------------------------------------------
(* session/prompt. The lookup and the begin of the turn are two critical     *)
(* sections, and so are its end and the change that is queued behind it.     *)

Prompt(r) ==
    /\ live # None
    /\ Serve("prompt", r, live, "begin")
    /\ UNCHANGED <<live, sess, path, closed, waits, cancelled, fileVars, history>>

\* Mutant: a rebuild does not keep prompts out.
MayBeginAnyway(s) == s.turn = None /\ ~s.deleted /\ s.pending = None

\* One turn at a time, and none on a configuration that is about to go.
MayBegin(s) == s.turn = None /\ ~s.deleted /\ s.maint = None /\ s.pending = None

\* Whoever looked the session up before it was closed may go to work after.
Late(r) == amiss' = IF live = req[r].on THEN amiss ELSE amiss \cup {"late"}

Begin(r) ==
    /\ At(r, "begin")
    /\ MayBegin(On(r))
    /\ sess' = [sess EXCEPT ![req[r].on].turn = r]
    /\ Goto(r, "enter")
    /\ Late(r)
    /\ UNCHANGED <<live, path, closed, waits, cancelled, fileVars, home, last, gone>>

BeginRefused(r) ==
    /\ At(r, "begin")
    /\ ~MayBegin(On(r))
    /\ End(r)
    /\ UNCHANGED <<live, sess, path, closed, waits, cancelled, fileVars, history>>

\* sess.ctrl.RunTurn: the field is read without the session mutex.
Enter(r) ==
    /\ At(r, "enter")
    /\ req' = [req EXCEPT ![r].pc = "turn", ![r].ctrl = On(r).ctrl]
    /\ UNCHANGED <<live, sess, path, closed, waits, cancelled, fileVars, history>>

\* The turn is over; the controller saves what it has added.
TurnReturns(r) ==
    /\ At(r, "turn")
    /\ req' = [req EXCEPT ![r].pc = "save", ![r].phase = "turn"]
    /\ UNCHANGED <<live, sess, path, closed, waits, cancelled, fileVars, history>>

\* persistAfterTurn: not for a session that is being deleted.
Persist(r) ==
    /\ At(r, "persist")
    /\ req' = [req EXCEPT ![r] =
                 IF On(r).deleted
                 THEN [@ EXCEPT !.pc = "finish"]
                 ELSE [@ EXCEPT !.pc = "save", !.phase = "persist", !.ctrl = On(r).ctrl]]
    /\ UNCHANGED <<live, sess, path, closed, waits, cancelled, fileVars, history>>

Stamp(r) ==
    /\ At(r, "stamp")
    /\ IF ~On(r).deleted /\ On(r).ctrl = req[r].ctrl /\ On(r).transcript \in disk
       THEN SaveMeta(On(r).transcript)
       ELSE UNCHANGED <<metas, redirect>>
    /\ Goto(r, "finish")
    /\ UNCHANGED <<live, sess, path, closed, waits, cancelled, lock, disk, cleanup, history>>

Finish(r) ==
    /\ At(r, "finish")
    /\ sess' = [sess EXCEPT ![req[r].on].turn = None]
    /\ Wake(r, "turn")
    /\ cancelled' = cancelled \ {r}
    /\ req' = [req EXCEPT ![r].pc = "apply", ![r].ctrl = None]
    /\ UNCHANGED <<live, path, closed, fileVars, history>>

\* session/cancel: the turn's context is cancelled; the turn will return.
Cancel(r) ==
    /\ "cancel" \in Kind
    /\ live # None /\ sess[live].turn = r
    /\ cancelled' = cancelled \cup {r}
    /\ UNCHANGED <<live, sess, path, closed, req, waits, fileVars, history>>

-----------------------------------------------------------------------------
(* Controller.Snapshot. It saves, it fails, or it finds that somebody else   *)
(* has written the file: it writes a recovery branch and asks the session to *)
(* follow (sessionRecoveredHandler) before it goes there itself.             *)

\* Where the caller goes on: only a rebuild looks at the error.
Back(r, ok) ==
    Goto(r, CASE req[r].phase = "turn"    -> "persist"
              [] req[r].phase = "persist" -> "stamp"
              [] req[r].phase = "rebuild" -> IF ok THEN "build" ELSE "abandon")

Saved(r) ==
    /\ At(r, "save")
    /\ disk' = disk \cup {path[req[r].ctrl]}
    /\ home' = path[req[r].ctrl]
    /\ Back(r, TRUE)
    /\ UNCHANGED <<live, sess, path, closed, waits, cancelled, lock, metas, redirect,
                   cleanup, last, gone, amiss>>

\* It fails, or there is nothing to save.
NotSaved(r) ==
    /\ At(r, "save")
    /\ \E ok \in BOOLEAN : Back(r, ok)
    /\ UNCHANGED <<live, sess, path, closed, waits, cancelled, fileVars, history>>

Recover(r) ==
    /\ At(r, "save")
    /\ \E q \in Branch \ {path[req[r].ctrl]} :
          /\ disk' = disk \cup {q}
          /\ req' = [req EXCEPT ![r].pc = "follow", ![r].at = q]
    /\ UNCHANGED <<live, sess, path, closed, waits, cancelled, lock, metas, redirect,
                   cleanup, history>>

\* The handler looks the session up by its id: a session that is being closed is
\* not found, and nothing follows the branch; nor is it when another was opened.
Follow(r) ==
    /\ At(r, "follow")
    /\ req' = [req EXCEPT ![r].pc = IF live = None THEN "commit" ELSE "secure", ![r].to = live]
    /\ amiss' = IF live = req[r].on THEN amiss ELSE amiss \cup {"unfollowed"}
    /\ UNCHANGED <<live, sess, path, closed, waits, cancelled, fileVars, home, last, gone>>

Secure(r) ==
    /\ At(r, "secure")
    /\ IF lock[req[r].at] = "free"
       THEN lock' = [lock EXCEPT ![req[r].at] = "ours"] /\ Goto(r, "assign")
       ELSE Back(r, FALSE) /\ UNCHANGED lock
    /\ UNCHANGED <<live, sess, path, closed, waits, cancelled, disk, metas, redirect,
                   cleanup, history>>

\* Mutant: the session keeps its transcript.
MoveLease(t, q) == sess' = [sess EXCEPT ![t].lease = q]
\* Mutant: the session forgets the lease it has got.
MoveTranscript(t, q) == sess' = [sess EXCEPT ![t].transcript = q]
MoveTo(t, q) == sess' = [sess EXCEPT ![t].lease = q, ![t].transcript = q]

\* The session moves to the branch, and its lease with it; the lease of the path
\* it leaves is released after the other is held.
Assign(r) ==
    LET t == req[r].to
        q == req[r].at
    IN  /\ At(r, "assign")
        /\ IF sess[t].deleted
           THEN Unlock(q) /\ Back(r, FALSE) /\ UNCHANGED sess
           ELSE /\ MoveTo(t, q)
                /\ Unlock(sess[t].lease)
                /\ Goto(r, "redirect")
        /\ amiss' = IF sess[t].transcript \in Branch THEN amiss \cup {"left"} ELSE amiss
        /\ UNCHANGED <<live, path, closed, waits, cancelled, disk, metas, redirect, cleanup,
                       home, last, gone>>

\* Mutant: only the branch has a sidecar.
RedirectNothing(q) == metas' = metas \cup {q} /\ UNCHANGED redirect
RedirectTo(q) == metas' = metas \cup {q, Main} /\ redirect' = q

\* The sidecar of the branch, and the redirect in the one of the id.
Redirect(r) ==
    /\ At(r, "redirect")
    /\ RedirectTo(req[r].at)
    /\ home' = req[r].at
    /\ Goto(r, "commit")
    /\ UNCHANGED <<live, sess, path, closed, waits, cancelled, lock, disk, cleanup, last,
                   gone, amiss>>

Commit(r) ==
    /\ At(r, "commit")
    /\ path' = [path EXCEPT ![req[r].ctrl] = req[r].at]
    /\ home' = req[r].at
    /\ Back(r, TRUE)
    /\ UNCHANGED <<live, sess, closed, waits, cancelled, fileVars, last, gone, amiss>>

-----------------------------------------------------------------------------
(* session/set_config_option and session/set_model: rebuildSession, also     *)
(* called by applyPendingSessionConfig behind a turn or another rebuild.     *)

SetConfig(r) ==
    /\ live # None
    /\ "set" \in Kind /\ At(r, "idle")
    /\ \E c \in Config :
          req' = [req EXCEPT ![r].pc = "claim", ![r].on = live, ![r].want = c]
    /\ UNCHANGED <<live, sess, path, closed, waits, cancelled, fileVars, history>>

\* A rebuild fails: applyPendingSessionConfig drops the queue, a request does not.
Fail(r) == IF req[r].via THEN Goto(r, "drop") ELSE End(r)

\* The session is deleted, a prompt is pending, or an idle session has jobs.
ClaimRefused(r) ==
    /\ At(r, "claim")
    /\ Fail(r)
    /\ UNCHANGED <<live, sess, path, closed, waits, cancelled, fileVars, history>>

\* What the client chose last. An applier may come with what it read before.
Chosen(r) ==
    IF req[r].via
    THEN /\ amiss' = IF req[r].want = last[req[r].on] THEN amiss ELSE amiss \cup {"stale"}
         /\ UNCHANGED last
    ELSE last' = [last EXCEPT ![req[r].on] = req[r].want] /\ UNCHANGED amiss

Busy(s) == s.turn # None \/ s.maint # None

Queue(r) ==
    /\ At(r, "claim")
    /\ ~On(r).deleted /\ Busy(On(r))
    /\ sess' = [sess EXCEPT ![req[r].on].pending = req[r].want]
    /\ Chosen(r)
    /\ End(r)
    /\ UNCHANGED <<live, path, closed, waits, cancelled, fileVars, home, gone>>

\* The queue is claimed in the section that raises maintenanceDone.
Claim(r) ==
    /\ At(r, "claim")
    /\ ~On(r).deleted /\ ~Busy(On(r))
    /\ sess' = [sess EXCEPT ![req[r].on].pending = None, ![req[r].on].maint = r]
    /\ req' = [req EXCEPT ![r].pc = "save", ![r].phase = "rebuild", ![r].ctrl = On(r).ctrl]
    /\ IF live = req[r].on THEN Chosen(r)
                           ELSE amiss' = amiss \cup {"late"} /\ UNCHANGED last
    /\ UNCHANGED <<live, path, closed, waits, cancelled, fileVars, home, gone>>

\* The path is captured after the save, the controller is built and adopts it.
Build(r) ==
    /\ At(r, "build") /\ FreeCtrls # {}
    /\ LET c == CHOOSE c \in FreeCtrls : TRUE
       IN  /\ path' = [path EXCEPT ![c] = path[req[r].ctrl]]
           /\ closed' = closed \ {c}
           /\ req' = [req EXCEPT ![r].pc = "swap", ![r].next = c]
    /\ UNCHANGED <<live, sess, waits, cancelled, fileVars, history>>

BuildFails(r) ==
    /\ At(r, "build")
    /\ Goto(r, "abandon")
    /\ UNCHANGED <<live, sess, path, closed, waits, cancelled, fileVars, history>>

Swap(r) ==
    /\ At(r, "swap")
    /\ ~On(r).deleted /\ On(r).ctrl = req[r].ctrl
    /\ sess' = [sess EXCEPT ![req[r].on].ctrl = req[r].next, ![req[r].on].config = req[r].want]
    /\ IF On(r).transcript \in disk THEN SaveMeta(On(r).transcript)
                                    ELSE UNCHANGED <<metas, redirect>>
    /\ req' = [req EXCEPT ![r].pc = "retire", ![r].next = None]
    /\ UNCHANGED <<live, path, closed, waits, cancelled, lock, disk, cleanup, history>>

\* The session was deleted, or has another controller: the new one is closed.
SwapRefused(r) ==
    /\ At(r, "swap")
    /\ On(r).deleted \/ On(r).ctrl # req[r].ctrl
    /\ closed' = closed \cup {req[r].next}
    /\ req' = [req EXCEPT ![r].pc = "abandon", ![r].next = None]
    /\ UNCHANGED <<live, sess, path, waits, cancelled, fileVars, history>>

Retire(r) ==
    /\ At(r, "retire")
    /\ closed' = closed \cup {req[r].ctrl}
    /\ req' = [req EXCEPT ![r].pc = "unwind", ![r].ctrl = None]
    /\ UNCHANGED <<live, sess, path, waits, cancelled, fileVars, history>>

\* Mutant: what was queued behind a rebuild is left to the next one.
UnwindOnly(r) ==
    /\ At(r, "unwind")
    /\ sess' = [sess EXCEPT ![req[r].on].maint = None]
    /\ Wake(r, "maint")
    /\ End(r)
    /\ UNCHANGED <<live, path, closed, cancelled, fileVars, history>>

\* finishMaintenance, and then whatever was queued meanwhile is applied.
Unwind(r) ==
    /\ At(r, "unwind")
    /\ sess' = [sess EXCEPT ![req[r].on].maint = None]
    /\ Wake(r, "maint")
    /\ Goto(r, "apply")
    /\ UNCHANGED <<live, path, closed, cancelled, fileVars, history>>

\* A choice that cannot be built is void.
Void(r) == last' = [last EXCEPT ![req[r].on] = IF @ = req[r].want THEN On(r).config ELSE @]

\* finishMaintenance of a rebuild that failed: nobody applies what was queued
\* meanwhile, unless the caller drops it.
Abandon(r) ==
    /\ At(r, "abandon")
    /\ sess' = [sess EXCEPT ![req[r].on].maint = None]
    /\ Wake(r, "maint")
    /\ IF On(r).pending = None THEN Void(r) ELSE UNCHANGED last
    /\ IF req[r].via
       THEN req' = [req EXCEPT ![r].pc = "drop", ![r].ctrl = None] /\ UNCHANGED amiss
       ELSE /\ End(r)
            /\ amiss' = IF On(r).pending = None THEN amiss ELSE amiss \cup {"stuck"}
    /\ UNCHANGED <<live, path, closed, cancelled, fileVars, home, gone>>

\* applyPendingSessionConfig: the session is looked up, then the queue is read.
Apply(r) ==
    /\ At(r, "apply")
    /\ IF live = req[r].on THEN Goto(r, "copy") ELSE End(r)
    /\ UNCHANGED <<live, sess, path, closed, waits, cancelled, fileVars, history>>

Copy(r) ==
    /\ At(r, "copy")
    /\ IF On(r).deleted \/ On(r).pending = None
       THEN End(r)
       ELSE req' = [req EXCEPT ![r].pc = "claim", ![r].want = On(r).pending, ![r].via = TRUE]
    /\ UNCHANGED <<live, sess, path, closed, waits, cancelled, fileVars, history>>

\* Mutant: what could not be applied stays queued.
MayDropNothing(s) == FALSE
MayDrop(s) == ~s.deleted /\ ~Busy(s) /\ s.pending # None

\* The attempt failed: the queue is dropped, or the session would refuse prompts.
\* It may hold a later choice than the one that failed.
Drop(r) ==
    LET s == On(r)
        drops == MayDrop(s)
    IN  /\ At(r, "drop")
        /\ sess' = [sess EXCEPT ![req[r].on].pending = IF drops THEN None ELSE @]
        /\ IF drops /\ s.pending = req[r].want THEN Void(r) ELSE UNCHANGED last
        /\ amiss' = IF drops /\ s.pending # req[r].want THEN amiss \cup {"dropped"} ELSE amiss
        /\ End(r)
        /\ UNCHANGED <<live, path, closed, waits, cancelled, fileVars, home, gone>>

-----------------------------------------------------------------------------
(* session/close and session/delete: out of the registry, then wait for the  *)
(* turn and the maintenance that are under way, then tear down.              *)

Take(r) ==
    /\ live # None
    /\ \E k \in {"close", "delete"} \cap Kind :
          /\ At(r, "idle")
          /\ req' = [req EXCEPT ![r].pc = "abort", ![r].on = live, ![r].phase = k]
    /\ live' = None
    /\ UNCHANGED <<sess, path, closed, waits, cancelled, fileVars, history>>

Awaited(s) == {<<"turn", s.turn>>, <<"maint", s.maint>>} \ {<<"turn", None>>, <<"maint", None>>}

\* Mutant: the turn runs on.
InterruptedNot(s) == {}
Interrupted(s) == {s.turn} \ {None}

\* abortAndWait, deleteAndWait.
Abort(r) ==
    LET s == On(r)
    IN  /\ At(r, "abort")
        /\ sess' = [sess EXCEPT ![req[r].on].deleted = @ \/ req[r].phase = "delete"]
        /\ waits' = [waits EXCEPT ![r] = Awaited(s)]
        /\ cancelled' = cancelled \cup Interrupted(s)
        /\ Goto(r, "wait")
        /\ UNCHANGED <<live, path, closed, fileVars, history>>

Waited(r) ==
    /\ At(r, "wait")
    /\ waits[r] = {}
    /\ Goto(r, IF req[r].phase = "close" THEN "shut" ELSE "release")
    /\ UNCHANGED <<live, sess, path, closed, waits, cancelled, fileVars, history>>

Shut(r) ==
    /\ At(r, "shut")
    /\ closed' = closed \cup {On(r).ctrl}
    /\ Goto(r, "release")
    /\ UNCHANGED <<live, sess, path, waits, cancelled, fileVars, history>>

\* releaseSessionLease: the end of a close; a deletion still needs the files.
Release(r) ==
    /\ At(r, "release")
    /\ Unlock(On(r).lease)
    /\ sess' = [sess EXCEPT ![req[r].on].lease = None]
    /\ IF req[r].phase = "close" THEN End(r) ELSE Goto(r, "destroy")
    /\ UNCHANGED <<live, path, closed, waits, cancelled, disk, metas, redirect, cleanup,
                   history>>

\* The jobs of the session end within the grace, or the files are marked and left
\* to a goroutine (via: the removal is delayed).
Destroy(r) ==
    LET p == On(r).transcript
    IN  /\ At(r, "destroy")
        /\ closed' = closed \cup {On(r).ctrl}
        /\ \/ /\ req' = [req EXCEPT ![r].pc = "erase", ![r].at = p]
              /\ UNCHANGED cleanup
           \/ /\ req' = [req EXCEPT ![r].pc = "twin", ![r].at = p, ![r].via = TRUE]
              /\ cleanup' = cleanup \cup {p}
           \/ /\ req' = [req EXCEPT ![r].pc = "linger", ![r].at = p]
              /\ UNCHANGED cleanup
        /\ UNCHANGED <<live, sess, path, waits, cancelled, lock, disk, metas, redirect, history>>

\* A deletion may overlap the close, or the load, of the same id.
Overlap(r, pcs) == \E q \in Request \ {r} : req[q].pc \in pcs
Race(r, pcs) == amiss' = IF Overlap(r, pcs) THEN amiss \cup {"raced"} ELSE amiss

\* session/delete of an id that is not open: whatever is on disk is removed.
DeleteClosed(r) ==
    /\ live = None
    /\ "delete" \in Kind /\ At(r, "idle")
    /\ req' = [req EXCEPT ![r].pc = "erase", ![r].at = Resolve]
    /\ Race(r, Pc \ {"idle", "done", "linger"})
    /\ UNCHANGED <<live, sess, path, closed, waits, cancelled, fileVars, home, last, gone>>

\* deleteSessionFiles.
Remove(p) ==
    /\ disk' = disk \ {p}
    /\ metas' = metas \ {p}
    /\ redirect' = IF p = Main THEN None ELSE redirect
    /\ cleanup' = cleanup \ {p}
    /\ home' = IF home = p THEN None ELSE home

Erase(r) ==
    /\ At(r, "erase")
    /\ Remove(req[r].at)
    /\ Goto(r, "twin")
    /\ UNCHANGED <<live, sess, path, closed, waits, cancelled, lock, last, gone, amiss>>

\* Mutant: the other file stays.
RemoveOne(p) == UNCHANGED <<disk, metas, redirect, cleanup, home>>
RemoveTwin(p) == IF p = Main THEN UNCHANGED <<disk, metas, redirect, cleanup, home>>
                             ELSE Remove(Main)

\* The file keyed by the id goes too, when the session lived in a branch.
Twin(r) ==
    /\ At(r, "twin")
    /\ RemoveTwin(req[r].at)
    /\ IF req[r].via THEN Goto(r, "linger") ELSE End(r)
    /\ gone' = TRUE
    /\ UNCHANGED <<live, sess, path, closed, waits, cancelled, lock, last, amiss>>

\* delayedDeleteSessionFiles: the last job has ended.
Linger(r) ==
    /\ At(r, "linger")
    /\ Remove(req[r].at)
    /\ End(r)
    /\ UNCHANGED <<live, sess, path, closed, waits, cancelled, lock, last, gone, amiss>>

-----------------------------------------------------------------------------
(* session/load and session/resume of an id that is not open.                *)

Load(r) ==
    /\ live = None
    /\ Resolve \notin cleanup
    /\ "load" \in Kind /\ At(r, "idle")
    /\ \E s \in FreeSessions :
          req' = [req EXCEPT ![r].pc = "resolve", ![r].on = s, ![r].at = Resolve]
    /\ UNCHANGED <<live, sess, path, closed, waits, cancelled, fileVars, history>>

\* The controller is built, and the id resolved again.
ResolveAgain(r) ==
    /\ At(r, "resolve")
    /\ IF Resolve # req[r].at /\ Resolve \in cleanup
       THEN End(r)
       ELSE req' = [req EXCEPT ![r].pc = "acquire", ![r].at = Resolve]
    /\ UNCHANGED <<live, sess, path, closed, waits, cancelled, fileVars, history>>

Acquire(r) ==
    /\ At(r, "acquire")
    /\ IF lock[req[r].at] = "free"
       THEN lock' = [lock EXCEPT ![req[r].at] = "ours"] /\ Goto(r, "read")
       ELSE End(r) /\ UNCHANGED lock
    /\ UNCHANGED <<live, sess, path, closed, waits, cancelled, disk, metas, redirect, cleanup,
                   history>>

\* A recovery frees the lease of the transcript it leaves before it redirects the
\* id: whoever resolved the id before then opens it where it no longer lives, or
\* beside a session of the id that holds the lease of another transcript.
Stray(r) == Resolve # req[r].at \/ \E s \in Session : sess[s].lease # None

\* LoadSession, and Controller.Resume of what was read; the configuration is the
\* one in the sidecar, or the default when that is no longer offered.
Read(r) ==
    /\ At(r, "read") /\ FreeCtrls # {}
    /\ req[r].at \in disk
    /\ LET c == CHOOSE c \in FreeCtrls : TRUE
       IN  /\ path' = [path EXCEPT ![c] = req[r].at]
           /\ closed' = closed \ {c}
           /\ \E g \in Config :
                 /\ sess' = [sess EXCEPT ![req[r].on] = Opened(c, g, req[r].at)]
                 /\ last' = [last EXCEPT ![req[r].on] = g]
    /\ Goto(r, "meta")
    /\ amiss' = amiss \cup {w \in {"raced"} : Overlap(r, {"destroy", "erase", "twin", "linger"})}
                      \cup {w \in {"usurped"} : Stray(r)}
    /\ UNCHANGED <<live, waits, cancelled, fileVars, home, gone>>

ReadFails(r) ==
    /\ At(r, "read")
    /\ Unlock(req[r].at)
    /\ End(r)
    /\ UNCHANGED <<live, sess, path, closed, waits, cancelled, disk, metas, redirect, cleanup,
                   history>>

LoadMeta(r) ==
    /\ At(r, "meta")
    /\ SaveMeta(req[r].at)
    /\ Goto(r, "register")
    /\ UNCHANGED <<live, sess, path, closed, waits, cancelled, lock, disk, cleanup, history>>

LoadMetaFails(r) ==
    /\ At(r, "meta")
    /\ Unlock(req[r].at)
    /\ sess' = [sess EXCEPT ![req[r].on] = Unopened]
    /\ End(r)
    /\ UNCHANGED <<live, path, closed, waits, cancelled, disk, metas, redirect, cleanup, history>>

\* Nothing looks whether another load of the id has been faster.
Register(r) ==
    /\ At(r, "register")
    /\ live' = req[r].on
    /\ End(r)
    /\ UNCHANGED <<sess, path, closed, waits, cancelled, fileVars, history>>

-----------------------------------------------------------------------------
(* Other runtimes, and the end of this one.                                  *)

OtherAcquires(p) ==
    /\ lock[p] = "free"
    /\ lock' = [lock EXCEPT ![p] = "other"]
    /\ UNCHANGED <<live, sess, path, closed, req, waits, cancelled, disk, metas, redirect,
                   cleanup, history>>

OtherReleases(p) ==
    /\ lock[p] = "other"
    /\ Unlock(p)
    /\ UNCHANGED <<live, sess, path, closed, req, waits, cancelled, disk, metas, redirect,
                   cleanup, history>>

\* ReconcileCleanupPending, whenever a runtime of the directory starts.
Reconcile(p) ==
    /\ p \in cleanup
    /\ Remove(p)
    /\ UNCHANGED <<live, sess, path, closed, req, waits, cancelled, lock, last, gone, amiss>>

\* The process dies: the kernel drops its leases, the files stay.
Crash ==
    /\ "crash" \in Kind
    /\ live' = None
    /\ sess' = [s \in Session |-> Unopened]
    /\ closed' = {}
    /\ req' = [r \in Request |-> IF At(r, "idle") THEN Unserved
                                  ELSE [Unserved EXCEPT !.pc = "done"]]
    /\ waits' = [r \in Request |-> {}]
    /\ cancelled' = {}
    /\ lock' = [p \in Path |-> IF lock[p] = "ours" THEN "free" ELSE lock[p]]
    /\ last' = [s \in Session |-> Default]
    /\ UNCHANGED <<path, disk, metas, redirect, cleanup, home, gone, amiss>>

-----------------------------------------------------------------------------
(* The specification. *)

\* What the goroutine of r does next once it has been started.
Turn(r) == \/ Begin(r) \/ BeginRefused(r) \/ Enter(r)
           \/ Persist(r) \/ Stamp(r) \/ Finish(r)
Save(r) == \/ Saved(r) \/ NotSaved(r) \/ Recover(r) \/ Follow(r) \/ Secure(r)
           \/ Assign(r) \/ Redirect(r) \/ Commit(r)
Rebuild(r) == \/ ClaimRefused(r) \/ Queue(r) \/ Claim(r) \/ Build(r) \/ BuildFails(r)
              \/ Swap(r) \/ SwapRefused(r) \/ Retire(r) \/ Unwind(r) \/ Abandon(r)
              \/ Apply(r) \/ Copy(r) \/ Drop(r)
Close(r) == \/ Abort(r) \/ Waited(r) \/ Shut(r) \/ Release(r)
            \/ Destroy(r) \/ Erase(r) \/ Twin(r) \/ Linger(r)
Open(r) == \/ ResolveAgain(r) \/ Acquire(r) \/ Read(r) \/ ReadFails(r)
           \/ LoadMeta(r) \/ LoadMetaFails(r) \/ Register(r)
Continue(r) == Turn(r) \/ Save(r) \/ Rebuild(r) \/ Close(r) \/ Open(r)

Start(r) == Prompt(r) \/ SetConfig(r) \/ Take(r) \/ DeleteClosed(r) \/ Load(r)

Next ==
    \/ \E r \in Request : Start(r) \/ Continue(r) \/ TurnReturns(r) \/ Cancel(r)
    \/ \E p \in Path : OtherAcquires(p) \/ OtherReleases(p) \/ Reconcile(p)
    \/ Crash

\* The scheduler runs every goroutine; a turn may go on for ever, unless its
\* context is cancelled: the controller then returns.
CancelledTurnReturns(r) == r \in cancelled /\ TurnReturns(r)

Fairness ==
    \A r \in Request : WF_vars(Continue(r)) /\ WF_vars(CancelledTurnReturns(r))

Spec == Init /\ [][Next]_vars
FairSpec == Spec /\ Fairness

-----------------------------------------------------------------------------
(* Properties. *)

TypeOK ==
    /\ live \in Session \cup {None}
    /\ sess \in [Session -> [ctrl : Ctrl \cup {None}, config : Config,
                             pending : Config \cup {None}, turn : Request \cup {None},
                             maint : Request \cup {None}, deleted : BOOLEAN,
                             transcript : Path, lease : Path \cup {None}]]
    /\ path \in [Ctrl -> Path]
    /\ closed \subseteq Ctrl
    /\ req \in [Request -> [pc : Pc, on : Session \cup {None}, ctrl : Ctrl \cup {None},
                            next : Ctrl \cup {None}, want : Config \cup {None},
                            via : BOOLEAN,
                            phase : {"turn", "persist", "rebuild", "close", "delete"},
                            at : Path, to : Session \cup {None}]]
    /\ waits \in [Request -> SUBSET ({"turn", "maint"} \X Request)]
    /\ cancelled \subseteq Request
    /\ lock \in [Path -> {"free", "ours", "other"}]
    /\ disk \subseteq Path
    /\ metas \subseteq Path
    /\ redirect \in Branch \cup {None}
    /\ cleanup \subseteq Path
    /\ home \in Path \cup {None}
    /\ last \in [Session -> Config]
    /\ gone \in BOOLEAN
    /\ amiss \subseteq {"late", "unfollowed", "usurped", "stale", "dropped", "stuck", "raced", "left"}

Clean(ways) == amiss \cap ways = {}
InSave(r)  == req[r].pc \in {"save", "follow", "secure", "assign", "redirect", "commit"}

\* While a request saves a controller, it is the controller of its session and
\* nobody has closed it: a rebuild, a close and a deletion wait for the turn, and
\* a turn waits for them (begin, rebuildSession, abortAndWait, deleteAndWait).
TurnsKeepTheirController ==
    \A r \in Request :
        (At(r, "turn") \/ InSave(r)) /\ Clean({"late"})
        => req[r].ctrl = On(r).ctrl /\ req[r].ctrl \notin closed

\* A controller writes a transcript only under the lease of that transcript
\* (service_lease_test.go; the handler of a recovery, service.go:310-319).
WritesAreLeased ==
    \A r \in Request :
        At(r, "save") /\ Clean({"late", "unfollowed"})
        => On(r).lease = path[req[r].ctrl] /\ lock[path[req[r].ctrl]] = "ours"

\* The session objects of the id hold, and the requests save.
Guarded == INSTANCE SessionFile WITH
    Writer <- Session \cup Request,
    holders <- {s \in Session : sess[s].lease # None},
    savers <- {r \in Request : At(r, "save")},
    removers <- {},
    stray <- ~Clean({"late", "unfollowed", "usurped"})

\* One session object has a lease, the next gets one after it has let it go, and one
\* request saves at a time, unless a request came late, a recovery was not followed or
\* a load opened the id where it no longer lives (begin, rebuildSession,
\* releaseSessionLease, sessionRecoveredHandler, openExistingSession).
OneWrites == Guarded!Spec

\* When nothing is under way the session, its controller and its lease name the
\* same transcript, and no lease is held for nobody.
Still == \A r \in Request : req[r].pc \in {"idle", "done"}
LeasesHaveOwners ==
    Still /\ Clean({"unfollowed", "usurped"})
    => /\ live # None => /\ path[sess[live].ctrl] = sess[live].transcript
                         /\ sess[live].lease = sess[live].transcript
                         /\ sess[live].ctrl \notin closed
       /\ \A p \in Path : lock[p] = "ours" <=> live # None /\ sess[live].lease = p

\* The id reopens on the transcript it wrote last, whenever the process dies: the
\* redirect of a recovery must be neither missing nor lost (resolveTranscriptPath).
ReopensWhereItWrote ==
    home # None /\ ~gone /\ Clean({"late", "unfollowed", "usurped", "raced"})
    => Resolve = home

\* Nothing of a deleted id is listed again, nor reopened by it: the transcript it
\* lived in and the one keyed by the id are both removed, and nobody writes them
\* after (sessionDelete, service.go:1102-1156).
DeletedStaysDeleted ==
    gone /\ Clean({"late", "usurped", "raced", "left"})
    => metas \cup (disk \cap {Main}) \subseteq cleanup

\* A session at rest runs the configuration that was chosen last.
LatestChoiceWins ==
    \A s \in Session :
        Still /\ live = s /\ Clean({"stale", "dropped", "stuck"})
        => sess[s].config = last[s] /\ sess[s].pending = None

\* A queued configuration is applied or dropped once no turn runs: until then
\* the session refuses every prompt.
QueueDrains ==
    \A s \in Session :
        live = s /\ sess[s].pending # None /\ sess[s].turn = None
        ~> live # s \/ sess[s].pending = None \/ "stuck" \in amiss

\* What the comment of begin promises (service.go:189-191): whoever queued behind a
\* turn or a rebuild is served from its defer. The code does not keep it: a rebuild
\* that fails applies nothing, and the session refuses every prompt.
QueueNeedsNoNewTurn ==
    \A s \in Session :
        live = s /\ sess[s].pending # None /\ sess[s].turn = None
        ~> live # s \/ sess[s].pending = None

\* A close or a deletion that waits for the session's turn and maintenance gets
\* its answer.
ClosesEnd ==
    \A r \in Request : At(r, "wait") ~> ~At(r, "wait")

=============================================================================
