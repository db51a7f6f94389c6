------------------------------ MODULE Senkusha ------------------------------
(***************************************************************************)
(* chiaki_senkusha_run: before the stream, a connection of its own         *)
(* measures the round trip and searches the largest packets that pass in   *)
(* either direction.  The running thread holds state_mutex between its     *)
(* waits, so a step of it goes from the end of one wait to the begin of    *)
(* the next, and callbacks of the Takion thread happen during the waits.   *)
(* An answer may be lost, be late, or come several times.  Tags, ids and   *)
(* numbers of acknowledgements are unique, so all that matters of them is  *)
(* whether they are those of the last command of their kind.               *)
(***************************************************************************)
EXTENDS Integers

CONSTANTS
  MtuMin, MtuMax,  \* 576 and 1454
  Retries,         \* attempts for each size (3)
  PingCount,           \* SENKUSHA_PING_COUNT_DEFAULT (10)
  Links            \* the largest packets that the network may pass

ASSUME SenkushaAssumption ==
  /\ MtuMin \in Nat /\ MtuMax \in Nat /\ MtuMin + 1 < MtuMax
  /\ Retries \in Nat \ {0} /\ PingCount \in Nat \ {0}
  /\ Links \subseteq Nat /\ \A l \in Links : MtuMin <= l

VARIABLES
  spc,      \* where the running thread is
  sk,       \* state, state_finished and ping_index
  test,     \* locals of the tests: pings_successful, min, max, cur
  takion,   \* the Takion connection
  answers,  \* what the console has answered, and may arrive any number of times
  link,     \* the largest packets that pass in and out
  missed,   \* directions in which a size that passes was given up
  result    \* err, mtu_in, mtu_out

senkushaVars == <<spc, sk, test, takion, answers, link, missed, result>>

SkStates == {"IDLE", "TAKION_CONNECT", "PROTOCOL_ACK", "BANG", "DATA_ACK", "PONG", "MTU",
             "CLIENT_MTU_COMMAND"}
Waits == {"connect", "version", "bang", "echoOn", "ping", "echoOff", "mtuIn", "clientMtu",
          "mtuOut", "final"}
Sizes == MtuMin .. MtuMax
Indices == 0 .. PingCount + Retries

SenkushaTypeOK ==
  /\ spc \in {"start", "close", "done"} \cup Waits
  /\ sk.state \in SkStates /\ sk.finished \in BOOLEAN /\ sk.index \in Indices
  /\ test.pongs \in 0 .. PingCount /\ test.min \in Sizes /\ test.max \in Sizes /\ test.cur \in Sizes
  /\ takion \in {"none", "connecting", "connected", "over"}
  /\ answers \subseteq [kind : SkStates, index : Indices, fresh : BOOLEAN]
  /\ link.in \in Links /\ link.out \in Links
  /\ missed \subseteq {"in", "out"}
  /\ result.err \in {"none", "success", "error"} /\ result.in \in Sizes /\ result.out \in Sizes

SenkushaInit ==
  /\ spc = "start"
  /\ sk = [state |-> "IDLE", finished |-> FALSE, index |-> 0]
  /\ test = [pongs |-> 0, min |-> MtuMin, max |-> MtuMax, cur |-> MtuMax]
  /\ takion = "none" /\ answers = {} /\ missed = {}
  /\ \E in, out \in Links : link = [in |-> in, out |-> out]
  /\ result = [err |-> "none", in |-> MtuMin, out |-> MtuMin]

-----------------------------------------------------------------------------
\* The assignments before a wait, and the command whose answer, if it passes,
\* is awaited: answers to earlier commands of the kind become stale.
Asks(kind, index, passes) ==
  /\ sk' = [state |-> kind, finished |-> FALSE, index |-> index]
  /\ answers' = {IF a.kind = kind THEN [a EXCEPT !.fresh = FALSE] ELSE a : a \in answers}
                  \cup (IF passes THEN {[kind |-> kind, index |-> index, fresh |-> TRUE]} ELSE {})

\* The wait at pc has ended with state_finished, by its predicate or along with the timeout.
Succeeds(pc, next) == spc = pc /\ sk.finished /\ spc' = next

\* chiaki_takion_connect succeeds, or not.
Connects ==
  /\ spc = "start" /\ sk' = [sk EXCEPT !.state = "TAKION_CONNECT"]
  /\ \/ takion' = "connecting" /\ spc' = "connect" /\ UNCHANGED result
     \/ spc' = "done" /\ result' = [result EXCEPT !.err = "error"] /\ UNCHANGED takion
  /\ UNCHANGED <<test, answers, link, missed>>

\* senkusha_set_version, senkusha_send_big, and the command that turns the echo on.
ConnectWaitEnds ==
  /\ Succeeds("connect", "version") /\ Asks("PROTOCOL_ACK", 0, TRUE)
  /\ UNCHANGED <<test, takion, link, missed, result>>
VersionWaitEnds ==
  /\ Succeeds("version", "bang") /\ Asks("BANG", 0, TRUE)
  /\ UNCHANGED <<test, takion, link, missed, result>>
BangWaitEnds ==
  /\ Succeeds("bang", "echoOn") /\ Asks("DATA_ACK", 0, TRUE)
  /\ UNCHANGED <<test, takion, link, missed, result>>

\* senkusha_run_rtt_test: pings one after the other, then the echo is turned off.
EchoOnWaitEnds ==
  /\ Succeeds("echoOn", "ping") /\ Asks("PONG", 0, TRUE)
  /\ UNCHANGED <<test, takion, link, missed, result>>
PingWaitEnds ==
  /\ spc = "ping"
  /\ test' = [test EXCEPT !.pongs = IF sk.finished THEN @ + 1 ELSE @]
  /\ \/ sk.index + 1 < PingCount /\ Asks("PONG", sk.index + 1, TRUE) /\ UNCHANGED spc
     \/ sk.index + 1 = PingCount /\ Asks("DATA_ACK", 0, TRUE) /\ spc' = "echoOff"
  /\ UNCHANGED <<takion, link, missed, result>>

-----------------------------------------------------------------------------
\* The search, the same in both directions.
\* Slip: the search goes on while there is any difference.
GoesOnSlip(t) == t.max > t.min
GoesOn(t) == t.max - t.min > 1
Search(min, max, cur) == [pongs |-> test.pongs, min |-> min, max |-> max, cur |-> cur]
Narrowed(success) ==
  LET min == IF success THEN test.cur ELSE test.min
      max == IF success THEN test.max ELSE test.cur
  IN Search(min, max, min + ((max - min) \div 2))
GivenUp(direction, passes) == missed' = IF passes /\ ~sk.finished THEN missed \cup {direction} ELSE missed

\* Commands with a size: the console answers those that pass.
SendsMtuCommand(t, attempt) == test' = t /\ spc' = "mtuIn" /\ Asks("MTU", attempt, t.cur <= link.in)
SendsOutPing(t, attempt) == test' = t /\ spc' = "mtuOut" /\ Asks("PONG", attempt, t.cur <= link.out)

\* senkusha_run_mtu_in_test begins if there was a pong.
EchoOffWaitEnds ==
  /\ spc = "echoOff" /\ sk.finished /\ test.pongs > 0
  /\ SendsMtuCommand(Search(MtuMin, MtuMax, MtuMax), 0)
  /\ UNCHANGED <<takion, link, missed, result>>

\* The same size again, the next size, or senkusha_run_mtu_out_test begins.
MtuInWaitEnds ==
  /\ spc = "mtuIn"
  /\ LET t == Narrowed(sk.finished)
     IN \/ /\ ~sk.finished /\ sk.index + 1 < Retries
           /\ SendsMtuCommand(test, sk.index + 1) /\ UNCHANGED <<missed, result>>
        \/ /\ sk.finished \/ sk.index + 1 = Retries
           /\ GivenUp("in", test.cur <= link.in)
           /\ \/ GoesOn(t) /\ SendsMtuCommand(t, 0) /\ UNCHANGED result
              \/ /\ ~GoesOn(t) /\ result' = [result EXCEPT !.in = t.min]
                 /\ test' = t /\ Asks("CLIENT_MTU_COMMAND", 0, TRUE) /\ spc' = "clientMtu"
  /\ UNCHANGED <<takion, link>>

\* Outward, the first size is the one found inward.
SearchesOutward(t) ==
  \/ GoesOn(t) /\ SendsOutPing(t, 0) /\ UNCHANGED result
  \/ /\ ~GoesOn(t) /\ result' = [result EXCEPT !.out = t.min]
     /\ test' = t /\ Asks("DATA_ACK", 0, TRUE) /\ spc' = "final"
ClientMtuWaitEnds ==
  /\ spc = "clientMtu" /\ sk.finished
  /\ SearchesOutward(Search(MtuMin, MtuMax, result.in))
  /\ UNCHANGED <<takion, link, missed>>
MtuOutWaitEnds ==
  /\ spc = "mtuOut"
  /\ \/ /\ ~sk.finished /\ sk.index + 1 < Retries
        /\ SendsOutPing(test, sk.index + 1) /\ UNCHANGED <<missed, result>>
     \/ /\ sk.finished \/ sk.index + 1 = Retries
        /\ GivenUp("out", test.cur <= link.out)
        /\ SearchesOutward(Narrowed(sk.finished))
  /\ UNCHANGED <<takion, link>>

-----------------------------------------------------------------------------
\* Every way out gives up the mutex and closes Takion: the acknowledgement of the final
\* command, or any wait that timed out or whose next command could not be sent.
Leaves(err) == spc' = "close" /\ result' = [result EXCEPT !.err = err]
FinalWaitEnds == spc = "final" /\ sk.finished /\ Leaves("success") /\ UNCHANGED <<sk, test, takion, answers, link, missed>>
WaitFails == spc \in Waits /\ Leaves("error") /\ UNCHANGED <<sk, test, takion, answers, link, missed>>

\* chiaki_takion_close joins the Takion thread.
Closes == spc = "close" /\ takion = "over" /\ spc' = "done" /\ UNCHANGED <<sk, test, takion, answers, link, missed, result>>

RunNext ==
  \/ Connects \/ ConnectWaitEnds \/ VersionWaitEnds \/ BangWaitEnds \/ EchoOnWaitEnds \/ PingWaitEnds
  \/ EchoOffWaitEnds \/ MtuInWaitEnds \/ ClientMtuWaitEnds \/ MtuOutWaitEnds \/ FinalWaitEnds
  \/ WaitFails \/ Closes

-----------------------------------------------------------------------------
\* senkusha_takion_cb.  A DISCONNECT during the connect takes back a CONNECTED
\* that the running thread has not noticed yet; later on nothing notes it.
TakionConnects ==
  /\ takion = "connecting" /\ takion' = "connected"
  /\ sk' = [sk EXCEPT !.finished = @ \/ sk.state = "TAKION_CONNECT"]
  /\ UNCHANGED <<spc, test, answers, link, missed, result>>
TakionEnds ==
  /\ takion \in {"connecting", "connected"} /\ takion' = "over"
  /\ sk' = [sk EXCEPT !.finished = @ /\ sk.state # "TAKION_CONNECT"]
  /\ UNCHANGED <<spc, test, answers, link, missed, result>>

\* senkusha_takion_data, _data_ack and _av: what is taken as the awaited answer.
\* Slip: the tag of a pong is not compared.
IsAwaitedSlip(a) == a.kind = sk.state /\ a.index = sk.index /\ (a.fresh \/ a.kind = "PONG")
IsAwaited(a) == a.kind = sk.state /\ a.index = sk.index /\ a.fresh
AnswerArrives(a) ==
  /\ takion = "connected" /\ IsAwaited(a)
  /\ sk' = [sk EXCEPT !.finished = TRUE]
  /\ UNCHANGED <<spc, test, takion, answers, link, missed, result>>

SenkushaNext == RunNext \/ TakionConnects \/ TakionEnds \/ \E a \in answers : AnswerArrives(a)

\* The waits are timed.  That Takion ends when it is closed is a premise about
\* another component, which does not hold in every case: its thread may wait for
\* ever for the resend thread (takionsendbuffer.c:71, FiniCompletes).
SenkushaSpec ==
  /\ SenkushaInit /\ [][SenkushaNext]_senkushaVars
  /\ WF_senkushaVars(RunNext) /\ WF_senkushaVars(spc = "close" /\ TakionEnds)

-----------------------------------------------------------------------------
Smaller(a, b) == IF a < b THEN a ELSE b

\* No late or repeated answer makes a packet size count that the network does
\* not pass; and the sizes are the largest ones, unless a size was given up after
\* all attempts.  Outward the very largest is tried only when it passes inward.
MtuIsWhatTheLinkPasses ==
  result.err = "success" =>
    /\ result.in <= link.in
    /\ "in" \notin missed => result.in = Smaller(link.in, MtuMax)
    /\ result.out <= link.out
    /\ "out" \notin missed =>
         result.out = Smaller(link.out, IF result.in = MtuMax THEN MtuMax ELSE MtuMax - 1)

\* Whatever arrives, is lost or fails, a run that has begun ends, given that its
\* Takion does: the session waits for it with its mutex held.
SenkushaEnds == spc \in Waits ~> spc = "done"
=============================================================================
