---------------------------- MODULE QuestSession ----------------------------
(***************************************************************************)
(* The native session of the Quest app (StreamSession.kt, Session in       *)
(* Chiaki.kt, NativeSessionHandle.kt, chiaki-jni.c): the activity resumes  *)
(* and pauses the stream, which makes a native session and stops, joins    *)
(* and frees it, while other threads pass on controller states, surfaces   *)
(* and the login PIN, and the native session calls back.                   *)
(*                                                                         *)
(* resume and shutdown of StreamSession are synchronized: one thread, here *)
(* the owner, is in them at a time.  A session that cannot be made leaves  *)
(* nothing behind, and a thread that cannot be started is left out.        *)
(***************************************************************************)
EXTENDS Integers

CONSTANTS Callers,     \* threads that use the session
          MaxSessions  \* bound: the native sessions made in all

ASSUME QuestSessionAssumption == MaxSessions \in Nat /\ "nobody" \notin Callers

Sessions == 1 .. MaxSessions
None == 0

VARIABLES
  owner,      \* where the owner is, and the session it works on
  published,  \* StreamSession.session
  native,     \* the native sessions: unmade, made, running, told to stop, in
              \* their last callback, ended or freed
  pointer,    \* of the NativeSessionHandle: whether it is not 0
  lock,       \* of the same: the caller inside withPointer, or nobody
  caller      \* where the callers are, and the session they found

questSessionVars == <<owner, published, native, pointer, lock, caller>>

NativeStates == {"unmade", "made", "running", "stopping", "callback", "ended", "freed"}

QuestSessionTypeOK ==
  /\ owner \in [pc : {"idle", "publish", "start", "stop", "detach", "join", "free"},
                session : Sessions \cup {None}]
  /\ owner.pc # "idle" => owner.session # None
  /\ published \in Sessions \cup {None}
  /\ native \in [Sessions -> NativeStates]
  /\ pointer \in [Sessions -> BOOLEAN]
  /\ lock \in [Sessions -> Callers \cup {"nobody"}]
  /\ caller \in [Callers -> [pc : {"idle", "found", "inside"}, session : Sessions \cup {None}]]
  /\ \A c \in Callers : caller[c].pc # "idle" => caller[c].session # None

Idle == [pc |-> "idle", session |-> None]
At(pc, s) == [pc |-> pc, session |-> s]

QuestSessionInit ==
  /\ owner = Idle /\ published = None
  /\ native = [s \in Sessions |-> "unmade"]
  /\ pointer = [s \in Sessions |-> FALSE]
  /\ lock = [s \in Sessions |-> "nobody"]
  /\ caller = [c \in Callers |-> Idle]

-----------------------------------------------------------------------------
(* The owner.  resume: a new native session is published and started.      *)

Makes(s) ==
  /\ owner.pc = "idle" /\ published = None /\ native[s] = "unmade"
  /\ native' = [native EXCEPT ![s] = "made"]
  /\ pointer' = [pointer EXCEPT ![s] = TRUE]
  /\ owner' = At("publish", s)
  /\ UNCHANGED <<published, lock, caller>>

Publishes ==
  /\ owner.pc = "publish"
  /\ published' = owner.session
  /\ owner' = At("start", owner.session)
  /\ UNCHANGED <<native, pointer, lock, caller>>

\* setSurface and start, through withPointer.
Starts ==
  /\ owner.pc = "start" /\ lock[owner.session] = "nobody"
  /\ native' = [native EXCEPT ![owner.session] = "running"]
  /\ owner' = Idle
  /\ UNCHANGED <<published, pointer, lock, caller>>

(* shutdown: "Unpublish before destruction".                               *)

\* Slip: the session is disposed of before it is stopped.
FirstDetaches == "detach"
FirstStops == "stop"
Unpublishes ==
  /\ owner.pc = "idle" /\ published # None
  /\ published' = None
  /\ owner' = At(FirstStops, published)
  /\ UNCHANGED <<native, pointer, lock, caller>>

\* stop, through withPointer.
Stops ==
  /\ owner.pc = "stop" /\ lock[owner.session] = "nobody"
  /\ native' = [native EXCEPT ![owner.session] = IF @ = "running" THEN "stopping" ELSE @]
  /\ owner' = At("detach", owner.session)
  /\ UNCHANGED <<published, pointer, lock, caller>>

\* dispose: detach, join and free.
\* Slip: detach does not wait for the calls under way.
DetachesAtOnce(s) == TRUE
MayDetach(s) == lock[s] = "nobody"
Detaches ==
  /\ owner.pc = "detach" /\ MayDetach(owner.session)
  /\ pointer' = [pointer EXCEPT ![owner.session] = FALSE]
  /\ owner' = At("join", owner.session)
  /\ UNCHANGED <<published, native, lock, caller>>

Joins ==
  /\ owner.pc = "join" /\ native[owner.session] = "ended"
  /\ owner' = At("free", owner.session)
  /\ UNCHANGED <<published, native, pointer, lock, caller>>

Frees ==
  /\ owner.pc = "free"
  /\ native' = [native EXCEPT ![owner.session] = "freed"]
  /\ owner' = Idle
  /\ UNCHANGED <<published, pointer, lock, caller>>

OwnerSteps == Publishes \/ Starts \/ Stops \/ Detaches \/ Joins \/ Frees

-----------------------------------------------------------------------------
(* The thread of the native session.  Its callbacks, the last of which     *)
(* brings the quit event, only post to the main looper, and take no lock.  *)

Quits(s) ==
  /\ native[s] \in {"running", "stopping"}
  /\ native' = [native EXCEPT ![s] = "callback"]
  /\ UNCHANGED <<owner, published, pointer, lock, caller>>

Ends(s) ==
  /\ native[s] = "callback"
  /\ native' = [native EXCEPT ![s] = "ended"]
  /\ UNCHANGED <<owner, published, pointer, lock, caller>>

-----------------------------------------------------------------------------
(* A caller of setControllerState, setSurface or setLoginPin reads the     *)
(* session that is published and then goes through its withPointer.        *)

Finds(c) ==
  /\ caller[c].pc = "idle" /\ published # None
  /\ caller' = [caller EXCEPT ![c] = At("found", published)]
  /\ UNCHANGED <<owner, published, native, pointer, lock>>

Enters(c) ==
  LET s == caller[c].session
  IN  /\ caller[c].pc = "found" /\ lock[s] = "nobody"
      /\ IF pointer[s] THEN /\ caller' = [caller EXCEPT ![c] = At("inside", s)]
                            /\ lock' = [lock EXCEPT ![s] = c]
                       ELSE /\ caller' = [caller EXCEPT ![c] = Idle]
                            /\ UNCHANGED lock
      /\ UNCHANGED <<owner, published, native, pointer>>

Returns(c) ==
  /\ caller[c].pc = "inside"
  /\ caller' = [caller EXCEPT ![c] = Idle]
  /\ lock' = [lock EXCEPT ![caller[c].session] = "nobody"]
  /\ UNCHANGED <<owner, published, native, pointer>>

QuestSessionNext ==
  \/ \E s \in Sessions : Makes(s) \/ Quits(s) \/ Ends(s)
  \/ Unpublishes \/ OwnerSteps
  \/ \E c \in Callers : Finds(c) \/ Enters(c) \/ Returns(c)

\* A session that was told to stop ends, and native calls return; the app owes
\* nothing.  The first is a premise about the library, which does not hold in the
\* cases that StopEndsTheSession of Session excepts.
StoppedEnds == \E s \in Sessions : (native[s] = "stopping" /\ Quits(s)) \/ Ends(s)
CallsReturn == \E c \in Callers : Enters(c) \/ Returns(c)
QuestSessionFairness ==
  /\ WF_questSessionVars(OwnerSteps) /\ WF_questSessionVars(StoppedEnds)
  /\ WF_questSessionVars(CallsReturn)

QuestSessionSpec == QuestSessionInit /\ [][QuestSessionNext]_questSessionVars /\ QuestSessionFairness

-----------------------------------------------------------------------------
\* "JNI called after free" (NativeSessionHandleTest.kt:109): no thread is in
\* a native call of a session that was freed, however late it found it.
NoCallReachesAFreedSession ==
  \A c \in Callers : caller[c].pc = "inside" => native[caller[c].session] # "freed"

\* shutdown ends, given that the stopped session does, though threads go on
\* calling: who finds the session after it was unpublished finds none, so that
\* the owner waits for the others only.
ShutdownEnds == owner.pc \in {"stop", "detach", "join", "free"} ~> owner.pc = "idle"
=============================================================================
