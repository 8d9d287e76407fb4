--------------------------- MODULE RunnerApiProofs ----------------------------
(***************************************************************************)
(* ObservatoryApi for any keys, requests and sessions. A key has one call  *)
(* that creates its run: a run may expire while a look at it is under way; *)
(* the look must not bring it back under a call that creates another, and  *)
(* does not, because a session has a number and the absent run none. What  *)
(* looks tell of a run, however late, is the one report of its session:    *)
(* this rests on the invariant of the session, which the calls keep.       *)
(***************************************************************************)
EXTENDS RunnerApi, RunnerProofs

IsCall(r) == r = [pc |-> r.pc, key |-> r.key, sid |-> r.sid, seen |-> r.seen,
                  cancel |-> r.cancel]
IsRun(r) == r = [sid |-> r.sid, status |-> r.status, report |-> r.report, snap |-> r.snap]

\* Before the first session there is no process to crash and none to resume.
\* The session that is shown is one of those that have a row.
SessionInv == made \in Nat /\ sid \in 0..made /\ (sid = 0 => main.pc = "closed")

ApiTypes ==
    /\ call = [c \in Callers |-> call[c]] /\ \A c \in Callers : IsCall(call[c])
    /\ runs = [k \in Keys |-> runs[k]] /\ \A k \in Keys : IsRun(runs[k])
    /\ owner \in [Keys -> Callers \cup {NoCaller}]

\* The call that creates the run of a key is its owner, and there is no run yet.
OwnerInv == \A c \in Callers : call[c].pc \in {"start", "record"} =>
    /\ call[c].key \in Keys
    /\ owner[call[c].key] = c
    /\ runs[call[c].key] = NoRun

\* What was started, looked at or recorded has a number.
NumberInv ==
    /\ \A c \in Callers : call[c].pc = "record" => call[c].sid # 0
    /\ \A c \in Callers : call[c].pc \in {"apply", "cache"} =>
                             call[c].sid # 0 /\ call[c].key \in Keys
    /\ \A k \in Keys : runs[k] # NoRun => runs[k].sid # 0

FlightInv == SessionInv /\ ApiTypes /\ OwnerInv /\ NumberInv
-----------------------------------------------------------------------------
(* The session.                                                            *)

LEMMA MainNeedsProcess == Main => main.pc # "closed"
  BY DEF Main, BeginCycle, Queue, Submit, Collect, Leave, Finally, Sweep, Cycled, File, Wake,
     Report, Status, Failed, Publish

LEMMA ThreadLeavesMain ==
  ASSUME NEW j \in Jobs, Thread(j) \/ Raise(j) PROVE UNCHANGED main
  BY DEF Thread, Raise, Check, Start, Answer, Fail, Finish, Halt

LEMMA SessionMoves ==
  ASSUME SessionInv,
         \/ UNCHANGED session
         \/ Session
         \/ NewSession
         \/ (Resume \/ StopRequested \/ Crash) /\ UNCHANGED <<sid, made>>
         \/ (FailedNew \/ FailedResume) /\ UNCHANGED sid
         \/ RestoreNewest /\ UNCHANGED made
  PROVE  SessionInv' /\ (sid # 0 => sid' # 0)
<1>1. CASE UNCHANGED session
  BY <1>1 DEF session, vars, run, SessionInv
<1>2. CASE Session
  BY <1>2, MainNeedsProcess, ThreadLeavesMain DEF Session, StopRecorded, run, SessionInv
<1>3. CASE NewSession
  BY <1>3 DEF NewSession, SessionInv
<1>4. CASE (Resume \/ StopRequested \/ Crash) /\ UNCHANGED <<sid, made>>
  BY <1>4 DEF Resume, StopRequested, Crash, SessionInv
<1>5. CASE (FailedNew \/ FailedResume) /\ UNCHANGED sid
  <2>1. made' \in Nat /\ made <= made'
    BY <1>5 DEF FailedNew, FailedResume, SessionInv
  <2>2. main'.pc = "closed" \/ sid # 0
    BY <1>5 DEF FailedNew, FailedResume, Close, SessionInv, Detached, vars, run
  <2>3. QED
    BY <1>5, <2>1, <2>2 DEF SessionInv
<1>6. CASE RestoreNewest /\ UNCHANGED made
  BY <1>6 DEF RestoreNewest, SessionInv
<1>7. QED
  BY <1>1, <1>2, <1>3, <1>4, <1>5, <1>6

\* A call that starts a session or resumes one.
LEMMA StartedHasNumber ==
  ASSUME SessionInv, NewSession \/ (Resume /\ UNCHANGED <<sid, made>>)
  PROVE  SessionInv' /\ sid' # 0
  BY DEF NewSession, Resume, SessionInv
-----------------------------------------------------------------------------
(* The calls.                                                              *)

\* Steps after which each call is where it was, free, or past its creation.
LEMMA OthersKeep ==
  ASSUME FlightInv, SessionInv', sid # 0 => sid' # 0,
         UNCHANGED <<runs, owner>>,
         NEW c \in Callers, NEW r, IsCall(r), call' = [call EXCEPT ![c] = r],
         r.pc \in {"start", "record"} => /\ call[c].pc \in {"start", "record"}
                                         /\ r.key = call[c].key,
         r.pc = "record" => r.sid # 0,
         r.pc \in {"apply", "cache"} => r.sid # 0 /\ r.key \in Keys
  PROVE  FlightInv'
<1>1. /\ call' = [d \in Callers |-> call'[d]] /\ call'[c] = r
      /\ \A d \in Callers : d # c => call'[d] = call[d]
  BY DEF FlightInv, ApiTypes
<1>2. ApiTypes'
  BY <1>1 DEF FlightInv, ApiTypes
<1>3. OwnerInv'
  BY <1>1 DEF FlightInv, OwnerInv
<1>4. NumberInv'
  BY <1>1 DEF FlightInv, NumberInv
<1>5. QED
  BY <1>2, <1>3, <1>4 DEF FlightInv

LEMMA FreeIsCall == IsCall(Free) /\ Free.pc = "free" /\ IsRun(NoRun) /\ NoRun.sid = 0
  BY DEF IsCall, Free, IsRun, NoRun

LEMMA CallShape ==
  ASSUME FlightInv, NEW c \in Callers
  PROVE  IsCall(call[c])
  BY DEF FlightInv, ApiTypes

LEMMA CreateKeeps ==
  ASSUME FlightInv, NEW c \in Callers, NEW k \in Keys, Create(c, k)
  PROVE  FlightInv'
<1>1. /\ call[c].pc = "free" /\ runs[k] = NoRun /\ UNCHANGED runs
      /\ SessionInv' /\ (sid # 0 => sid' # 0)
  BY SessionMoves DEF Create, FlightInv
<1>2. CASE owner[k] # NoCaller
  <2> DEFINE r == [call[c] EXCEPT !.pc = "wait", !.key = k]
  <2>1. UNCHANGED owner /\ call' = [call EXCEPT ![c] = r]
    BY <1>2, CallShape DEF Create, FlightInv, ApiTypes
  <2>2. IsCall(r) /\ r.pc = "wait"
    <3>1. IsCall(call[c]) /\ r = [call[c] EXCEPT !.pc = "wait", !.key = k]
      BY CallShape
    <3> HIDE DEF r
    <3>2. r = [pc |-> "wait", key |-> k, sid |-> call[c].sid, seen |-> call[c].seen,
               cancel |-> call[c].cancel]
      BY <3>1 DEF IsCall
    <3>3. QED
      BY <3>2 DEF IsCall
  <2> HIDE DEF r
  <2>3. QED
    BY <1>1, <2>1, <2>2, OthersKeep
<1>3. CASE owner[k] = NoCaller
  <2> DEFINE r == [call[c] EXCEPT !.pc = "start", !.key = k]
  <2>1. /\ owner' = [owner EXCEPT ![k] = c] /\ call' = [call EXCEPT ![c] = r]
    BY <1>3, CallShape DEF Create, FlightInv, ApiTypes
  <2>2. IsCall(r) /\ r.pc = "start" /\ r.key = k
    <3>1. IsCall(call[c]) /\ r = [call[c] EXCEPT !.pc = "start", !.key = k]
      BY CallShape
    <3> HIDE DEF r
    <3>2. r = [pc |-> "start", key |-> k, sid |-> call[c].sid, seen |-> call[c].seen,
               cancel |-> call[c].cancel]
      BY <3>1 DEF IsCall
    <3>3. QED
      BY <3>2 DEF IsCall
  <2> HIDE DEF r
  <2>3. /\ call' = [d \in Callers |-> call'[d]] /\ call'[c] = r
        /\ \A d \in Callers : d # c => call'[d] = call[d]
        /\ owner' \in [Keys -> Callers \cup {NoCaller}]
        /\ owner'[k] = c /\ \A l \in Keys : l # k => owner'[l] = owner[l]
    BY <2>1 DEF FlightInv, ApiTypes
  <2>4. ApiTypes'
    BY <1>1, <2>2, <2>3 DEF FlightInv, ApiTypes
  <2>5. OwnerInv'
    BY <1>1, <1>3, <2>2, <2>3, ApiAssumption DEF FlightInv, OwnerInv
  <2>6. NumberInv'
    BY <1>1, <2>2, <2>3 DEF FlightInv, NumberInv
  <2>7. QED
    BY <1>1, <2>4, <2>5, <2>6 DEF FlightInv
<1>4. QED
  BY <1>2, <1>3

\* The owner ends, with a run or without one.
LEMMA ReleaseKeeps ==
  ASSUME FlightInv, SessionInv', sid # 0 => sid' # 0, NEW c \in Callers,
         call[c].pc \in {"start", "record"}, Release(c, call[c].key),
         NEW r, IsRun(r), r = NoRun \/ r.sid # 0,
         runs' = [runs EXCEPT ![call[c].key] = r]
  PROVE  FlightInv'
<1> DEFINE k == call[c].key
<1>1. /\ k \in Keys /\ owner[k] = c
      /\ runs' = [l \in Keys |-> runs'[l]] /\ runs'[k] = r
      /\ \A l \in Keys : l # k => runs'[l] = runs[l]
  BY DEF FlightInv, ApiTypes, OwnerInv
<1>2. /\ owner' \in [Keys -> Callers \cup {NoCaller}]
      /\ \A l \in Keys : l # k => owner'[l] = owner[l]
  BY <1>1 DEF FlightInv, ApiTypes, Release
<1>3. /\ call' = [d \in Callers |-> call'[d]] /\ call'[c] = Free
      /\ \A d \in Callers : d # c => \/ call'[d] = call[d]
                                     \/ call'[d] = [call[d] EXCEPT !.pc = "woken"]
  BY DEF Release
<1>4. \A d \in Callers : /\ IsCall(call'[d])
                         /\ \/ call'[d].pc \in {"free", "woken"}
                            \/ d # c /\ call'[d] = call[d]
  BY <1>3, FreeIsCall, CallShape DEF IsCall
<1>5. ApiTypes'
  BY <1>1, <1>2, <1>3, <1>4 DEF FlightInv, ApiTypes
<1> HIDE DEF k
<1>6. OwnerInv'
  BY <1>1, <1>2, <1>4 DEF FlightInv, OwnerInv
<1>7. NumberInv'
  BY <1>1, <1>4 DEF FlightInv, NumberInv
<1>8. QED
  BY <1>5, <1>6, <1>7 DEF FlightInv

LEMMA StartRunKeeps ==
  ASSUME FlightInv, NEW c \in Callers, StartRun(c)
  PROVE  FlightInv'
<1>1. call[c].pc = "start" /\ UNCHANGED runs /\ runs[call[c].key] = NoRun /\ call[c].key \in Keys
  BY DEF StartRun, FlightInv, OwnerInv
<1>2. CASE /\ Release(c, call[c].key)
           /\ UNCHANGED session \/ ((FailedNew \/ FailedResume) /\ UNCHANGED sid)
  <2>1. runs' = [runs EXCEPT ![call[c].key] = NoRun]
    BY <1>1 DEF FlightInv, ApiTypes
  <2>2. SessionInv' /\ (sid # 0 => sid' # 0)
    BY <1>2, SessionMoves DEF FlightInv
  <2>3. QED
    BY <1>1, <1>2, <2>1, <2>2, FreeIsCall, ReleaseKeeps
<1>3. CASE /\ NewSession \/ (Resume /\ UNCHANGED <<sid, made>>)
           /\ call' = [call EXCEPT ![c].pc = "record", ![c].sid = sid']
           /\ UNCHANGED owner
  <2> DEFINE r == [call[c] EXCEPT !.pc = "record", !.sid = sid']
  <2>1. call' = [call EXCEPT ![c] = r]
    BY <1>3 DEF FlightInv, ApiTypes
  <2>2. IsCall(r) /\ r.pc = "record" /\ r.key = call[c].key /\ r.sid = sid'
    <3>1. IsCall(call[c]) /\ r = [call[c] EXCEPT !.pc = "record", !.sid = sid']
      BY CallShape
    <3> HIDE DEF r
    <3>2. r = [pc |-> "record", key |-> call[c].key, sid |-> sid', seen |-> call[c].seen,
               cancel |-> call[c].cancel]
      BY <3>1 DEF IsCall
    <3>3. QED
      BY <3>2 DEF IsCall
  <2>3. SessionInv' /\ sid' # 0
    BY <1>3, StartedHasNumber DEF FlightInv
  <2> HIDE DEF r
  <2>4. QED
    BY <1>1, <1>3, <2>1, <2>2, <2>3, OthersKeep
<1>4. QED
  BY <1>2, <1>3 DEF StartRun

LEMMA RecordRunKeeps ==
  ASSUME FlightInv, NEW c \in Callers, RecordRun(c)
  PROVE  FlightInv'
<1> DEFINE r == [NoRun EXCEPT !.sid = call[c].sid, !.status = "running"]
<1>1. /\ call[c].pc = "record" /\ Release(c, call[c].key) /\ UNCHANGED session
      /\ runs' = [runs EXCEPT ![call[c].key] = r]
  BY DEF RecordRun
<1>2. IsRun(r) /\ r.sid = call[c].sid /\ call[c].sid # 0
  <2>1. call[c].sid # 0
    BY <1>1 DEF FlightInv, NumberInv
  <2>2. IsRun(NoRun) /\ r = [NoRun EXCEPT !.sid = call[c].sid, !.status = "running"]
    BY FreeIsCall
  <2> HIDE DEF r
  <2>3. r = [sid |-> call[c].sid, status |-> "running", report |-> NoRun.report,
             snap |-> NoRun.snap]
    BY <2>2 DEF IsRun
  <2>4. QED
    BY <2>1, <2>3 DEF IsRun
<1>3. SessionInv' /\ (sid # 0 => sid' # 0)
  BY <1>1, SessionMoves DEF FlightInv
<1> HIDE DEF r
<1>4. QED
  BY <1>1, <1>2, <1>3, ReleaseKeeps

\* A look writes to the run it has looked at, or to none.
LEMMA WrittenKeeps ==
  ASSUME FlightInv, SessionInv', sid # 0 => sid' # 0, UNCHANGED owner,
         NEW c \in Callers, call[c].pc \in {"apply", "cache"},
         NEW r, IsCall(r), r.pc \in {"cache", "compare", "free"},
         r.pc = "cache" => r.sid = call[c].sid /\ r.key = call[c].key,
         call' = [call EXCEPT ![c] = r],
         NEW q, IsRun(q), q.sid = runs[call[c].key].sid,
         \/ UNCHANGED runs
         \/ /\ runs[call[c].key].sid = call[c].sid
            /\ runs' = [runs EXCEPT ![call[c].key] = q]
  PROVE  FlightInv'
<1> DEFINE k == call[c].key
<1>1. k \in Keys /\ call[c].sid # 0
  BY DEF FlightInv, NumberInv
<1>2. CASE UNCHANGED runs
  BY <1>1, <1>2, OthersKeep
<1>3. CASE /\ runs[k].sid = call[c].sid
           /\ runs' = [runs EXCEPT ![k] = q]
  <2>1. runs[k] # NoRun /\ q.sid # 0
    BY <1>1, <1>3, FreeIsCall
  <2>2. /\ call' = [d \in Callers |-> call'[d]] /\ call'[c] = r
        /\ \A d \in Callers : d # c => call'[d] = call[d]
        /\ runs' = [l \in Keys |-> runs'[l]] /\ runs'[k] = q
        /\ \A l \in Keys : l # k => runs'[l] = runs[l]
    BY <1>1, <1>3 DEF FlightInv, ApiTypes
  <2>3. ApiTypes'
    BY <2>2 DEF FlightInv, ApiTypes
  <2>4. OwnerInv'
    BY <2>1, <2>2 DEF FlightInv, OwnerInv
  <2>5. NumberInv'
    BY <1>1, <2>1, <2>2 DEF FlightInv, NumberInv
  <2>6. QED
    BY <2>3, <2>4, <2>5 DEF FlightInv
<1>4. QED
  BY <1>2, <1>3

LEMMA ApplyKeeps ==
  ASSUME FlightInv, NEW c \in Callers, Apply(c)
  PROVE  FlightInv'
<1> DEFINE k == call[c].key  seen == call[c].seen
           r == [call[c] EXCEPT !.pc = "cache"]
           q == [runs[k] EXCEPT !.status = PrivateStatus(seen[1]), !.snap = seen]
<1>1. /\ call[c].pc = "apply" /\ UNCHANGED <<session, owner>>
      /\ \/ UNCHANGED runs
         \/ runs[k].sid = call[c].sid
            /\ runs' = [runs EXCEPT ![k].status = PrivateStatus(seen[1]), ![k].snap = seen]
      /\ call' = [call EXCEPT ![c].pc = "cache"]
  BY DEF Apply, ToStep
<1>2. k \in Keys /\ IsRun(runs[k]) /\ IsCall(call[c])
  BY <1>1 DEF FlightInv, NumberInv, ApiTypes
<1>3. IsRun(q) /\ q.sid = runs[k].sid
  <2>1. IsRun(runs[k]) /\ q = [runs[k] EXCEPT !.status = PrivateStatus(seen[1]), !.snap = seen]
    BY <1>2
  <2> HIDE DEF q, k, seen
  <2>2. q = [sid |-> runs[k].sid, status |-> PrivateStatus(seen[1]), report |-> runs[k].report,
             snap |-> seen]
    BY <2>1 DEF IsRun
  <2>3. QED
    BY <2>2 DEF IsRun
<1>4. IsCall(r) /\ r.pc = "cache" /\ r.sid = call[c].sid /\ r.key = k
  BY <1>2 DEF IsCall
<1>5. [runs EXCEPT ![k].status = PrivateStatus(seen[1]), ![k].snap = seen]
        = [runs EXCEPT ![k] = q]
  BY <1>2 DEF FlightInv, ApiTypes
<1>6. call' = [call EXCEPT ![c] = r]
  BY <1>1 DEF FlightInv, ApiTypes
<1>7. SessionInv' /\ (sid # 0 => sid' # 0)
  BY <1>1, SessionMoves DEF FlightInv
<1> HIDE DEF k, r, q, seen
<1>8. QED
  BY <1>1, <1>3, <1>4, <1>5, <1>6, <1>7, WrittenKeeps DEF k

LEMMA CacheKeeps ==
  ASSUME FlightInv, NEW c \in Callers, Cache(c)
  PROVE  FlightInv'
<1> DEFINE k == call[c].key
           s == IF ToldOf(call[c].sid) THEN StatusOf(report) ELSE "failed"
           r == IF call[c].cancel THEN [call[c] EXCEPT !.pc = "compare"] ELSE Free
           q == [runs[k] EXCEPT !.status = s, !.report = s]
<1>1. /\ call[c].pc = "cache" /\ UNCHANGED <<session, owner>>
      /\ \/ UNCHANGED runs
         \/ runs[k].sid = call[c].sid
            /\ runs' = [runs EXCEPT ![k].status = s, ![k].report = s]
      /\ call' = [call EXCEPT ![c] = r]
  BY DEF Cache
<1>2. k \in Keys /\ IsRun(runs[k]) /\ IsCall(call[c])
  BY <1>1 DEF FlightInv, NumberInv, ApiTypes
<1> HIDE DEF s
<1>3. IsRun(q) /\ q.sid = runs[k].sid
  <2>1. IsRun(runs[k]) /\ q = [runs[k] EXCEPT !.status = s, !.report = s]
    BY <1>2
  <2> HIDE DEF q, k
  <2>2. q = [sid |-> runs[k].sid, status |-> s, report |-> s, snap |-> runs[k].snap]
    BY <2>1 DEF IsRun
  <2>3. QED
    BY <2>2 DEF IsRun
<1>4. IsCall(r) /\ r.pc \in {"compare", "free"}
  BY <1>2, FreeIsCall DEF IsCall
<1>5. [runs EXCEPT ![k].status = s, ![k].report = s] = [runs EXCEPT ![k] = q]
  BY <1>2 DEF FlightInv, ApiTypes
<1>6. SessionInv' /\ (sid # 0 => sid' # 0)
  BY <1>1, SessionMoves DEF FlightInv
<1> HIDE DEF k, r, q
<1>7. QED
  BY <1>1, <1>3, <1>4, <1>5, <1>6, WrittenKeeps DEF k

LEMMA LookKeeps ==
  ASSUME FlightInv, NEW c \in Callers, NEW k \in Keys, NEW cancel \in BOOLEAN,
         Look(c, k, cancel)
  PROVE  FlightInv'
<1> DEFINE r == [pc |-> "apply", key |-> k, sid |-> sid, cancel |-> cancel,
                 seen |-> Seen]
<1>1. /\ runs[k] # NoRun /\ sid = runs[k].sid /\ UNCHANGED <<session, runs, owner>>
      /\ call' = [call EXCEPT ![c] = r]
  BY DEF Look
<1>2. IsCall(r) /\ r.pc = "apply" /\ r.sid # 0 /\ r.key \in Keys
  BY <1>1 DEF IsCall, FlightInv, NumberInv
<1>3. SessionInv' /\ (sid # 0 => sid' # 0)
  BY <1>1, SessionMoves DEF FlightInv
<1> HIDE DEF r
<1>4. QED
  BY <1>1, <1>2, <1>3, OthersKeep

LEMMA RestKeeps ==
  ASSUME FlightInv, NEW c \in Callers, Follow(c) \/ Compare(c) \/ Stop(c)
  PROVE  FlightInv'
<1>1. UNCHANGED session \/ (StopRequested /\ UNCHANGED <<sid, made>>)
  BY DEF Follow, Compare, Stop, session
<1>2. PICK r \in {Free, [call[c] EXCEPT !.pc = "stop"]} :
         call' = [call EXCEPT ![c] = r] /\ UNCHANGED <<runs, owner>>
  <2>1. CASE Follow(c) \/ Stop(c)
    BY <2>1 DEF Follow, Stop
  <2>2. CASE Compare(c)
    BY <2>2 DEF Compare
  <2>3. QED
    BY <2>1, <2>2
<1>3. IsCall(r) /\ r.pc \in {"free", "stop"}
  BY <1>2, FreeIsCall, CallShape DEF IsCall
<1>4. SessionInv' /\ (sid # 0 => sid' # 0)
  BY <1>1, SessionMoves DEF FlightInv
<1>5. QED
  BY <1>2, <1>3, <1>4, OthersKeep

LEMMA ExpireKeeps ==
  ASSUME FlightInv, NEW k \in Keys, Expire(k)
  PROVE  FlightInv'
<1>1. /\ runs' = [l \in Keys |-> runs'[l]] /\ runs'[k] = NoRun
      /\ \A l \in Keys : l # k => runs'[l] = runs[l]
      /\ UNCHANGED <<session, owner, call>>
  BY DEF Expire, FlightInv, ApiTypes
<1>2. SessionInv' /\ sid' = sid
  BY <1>1, SessionMoves DEF FlightInv, session
<1>3. ApiTypes' /\ OwnerInv' /\ NumberInv'
  BY <1>1, <1>2, FreeIsCall DEF FlightInv, ApiTypes, OwnerInv, NumberInv
<1>4. QED
  BY <1>2, <1>3 DEF FlightInv

LEMMA FlightStep == FlightInv /\ [ApiNext]_apivars => FlightInv'
<1> SUFFICES ASSUME FlightInv, [ApiNext]_apivars PROVE FlightInv'
  OBVIOUS
<1>1. CASE Session \/ UNCHANGED apivars
  <2>1. /\ UNCHANGED <<runs, owner, call>>
        /\ Session \/ UNCHANGED session
    BY <1>1 DEF Session, apivars, session
  <2>2. SessionInv' /\ (sid # 0 => sid' # 0)
    BY <2>1, SessionMoves DEF FlightInv
  <2>3. ApiTypes' /\ OwnerInv' /\ NumberInv'
    BY <2>1, <2>2 DEF FlightInv, ApiTypes, OwnerInv, NumberInv
  <2>4. QED
    BY <2>2, <2>3 DEF FlightInv
<1>2. CASE Restarted
  <2>1. SessionInv'
    BY <1>2, SessionMoves DEF Restarted, FlightInv
  <2>2. /\ runs' = [k \in Keys |-> NoRun] /\ owner' = [k \in Keys |-> NoCaller]
        /\ call' = [c \in Callers |-> Free]
    BY <1>2 DEF Restarted
  <2>3. ApiTypes' /\ OwnerInv' /\ NumberInv'
    BY <2>2, FreeIsCall DEF ApiTypes, OwnerInv, NumberInv
  <2>4. QED
    BY <2>1, <2>3 DEF FlightInv
<1>3. ASSUME NEW c \in Callers, Caller(c) PROVE FlightInv'
  BY <1>3, StartRunKeeps, RecordRunKeeps, ApplyKeeps, CacheKeeps, RestKeeps DEF Caller
<1>4. QED
  BY <1>1, <1>2, <1>3, ExpireKeeps, CreateKeeps, LookKeeps DEF ApiNext

LEMMA FlightInitial == ApiInit => FlightInv
<1> SUFFICES ASSUME ApiInit PROVE FlightInv
  OBVIOUS
<1>1. SessionInv
  BY DEF ApiInit, AtStart, SessionInv
<1>2. ApiTypes /\ OwnerInv /\ NumberInv
  BY FreeIsCall DEF ApiInit, ApiTypes, OwnerInv, NumberInv
<1>3. QED
  BY <1>1, <1>2 DEF FlightInv

(* One call creates the run of a key, and none once it is there, for any   *)
(* number of requests, however they fail, wait, are retried or look at a   *)
(* run that expires (observatory_api.py: create_run, _refresh).            *)
THEOREM SingleFlightCorrect == ApiSpec => []SingleFlight
<1>1. FlightInv => SingleFlight
  <2>1. SUFFICES ASSUME FlightInv, NEW k \in Keys,
                        NEW creating, creating = {c \in Callers :
                            call[c].key = k /\ call[c].pc \in {"start", "record"}}
                 PROVE  /\ Cardinality(creating) <= 1
                        /\ creating # {} => runs[k] = NoRun
    BY DEF SingleFlight
  <2>2. \A c \in creating : owner[k] = c /\ runs[k] = NoRun
    BY <2>1 DEF FlightInv, OwnerInv
  <2>3. creating = {} \/ creating = {owner[k]}
    BY <2>2
  <2>4. Cardinality(creating) <= 1
    <3>1. Cardinality({}) = 0 /\ Cardinality({owner[k]}) = 1
      BY FS_EmptySet, FS_Singleton
    <3>2. QED
      BY <2>3, <3>1
  <2>5. QED
    BY <2>2, <2>4
<1>2. QED
  BY <1>1, FlightInitial, FlightStep, PTL DEF ApiSpec
-----------------------------------------------------------------------------
(* What is told of a run. A session that fails files no report, and one    *)
(* that has filed its report does not fail; so what two looks bring of a   *)
(* session is the same, however late they are applied.                     *)

\* The session, as it stands, files no report from here on. It may have filed
\* one, if it was dropped.
Doomed == \/ main.failed
          \/ main.pc = "closed"
          \/ main.pc = "dead" /\ status # "interrupted"

SingleInv ==
    /\ kind = "single" /\ faults \in [store : Nat, crash : Nat]
    /\ status \in {"running", "stopping", "complete", "stopped", "interrupted", "error"}
    /\ noted \in {"idle", "running", "stopping", "complete", "stopped", "interrupted", "error"}
    /\ status = "error" \/ noted = "error" => Doomed
    /\ noted = "idle" => sid = 0
    /\ main.pc # "file"

\* Sessions are numbered in the order they were started.
BoundInv == /\ \A c \in Callers : call[c].sid \in 0..sid
            /\ \A k \in Keys : runs[k].sid \in 0..sid

Looks(c) == call[c].pc \in {"apply", "cache"}
SawFailure(c) == Looks(c) /\ PrivateStatus(call[c].seen[1]) = "failed"

\* A failure that was seen, or told, is one of the session.
FailureInv ==
    /\ \A c \in Callers : SawFailure(c) /\ call[c].sid = sid => Doomed
    /\ \A k \in Keys : runs[k].report # "none" /\ runs[k].sid = sid /\ report = None => Doomed

\* The status of a run is that of its report, or a look is about to make it so.
StatusInv == \A k \in Keys :
    /\ runs[k].report # "none" /\ runs[k].sid = sid /\ report # None /\ ~Detached
    /\ runs[k].status # runs[k].report
    => \E c \in Callers : call[c].pc = "cache" /\ call[c].key = k /\ call[c].sid = sid

\* What there is to tell of the session in the first life of the process.
Tale == IF report # None THEN StatusOf(report) ELSE "failed"

FirstLifeInv == faults.crash = 0 =>
    /\ report # None => main.pc \in {"status", "publish", "ended", "closed"} /\ ~main.failed
    /\ main.pc # "dead"
    /\ status = "error" \/ noted = "error" => main.failed
    /\ \A c \in Callers : SawFailure(c) /\ call[c].sid = sid => main.failed
    /\ \A k \in Keys : runs[k].report # "none" /\ runs[k].sid = sid => runs[k].report = Tale
    /\ \A c \in Callers, k \in Keys :
          /\ SawFailure(c) /\ call[c].key = k /\ runs[k].sid = call[c].sid
          /\ runs[k].report # "none"
          => runs[k].report = "failed"

ReportsInv == /\ FlightInv /\ RunnerInv /\ SingleInv /\ BoundInv /\ FailureInv /\ StatusInv
              /\ FirstLifeInv

LEMMA JobsThere == Jobs # {}
<1>1. Widths[1] \in Nat \ {0} /\ Cycles \in Nat /\ 1 \in 1..Cycles
  BY RunnerAssumption DEF Cycles
<1>2. <<1, 1>> \in {1} \X (1..Widths[1])
  BY <1>1
<1>3. QED
  BY <1>1, <1>2 DEF Jobs

LEMMA SavedIsThere ==
  ASSUME NEW stopped, SaveReport(stopped) PROVE report' # None
<1>1. PICK j \in Jobs : TRUE
  BY JobsThere
<1>2. <<j, job[j]>> \in report'.jobs
  BY <1>1 DEF SaveReport
<1>3. QED
  BY <1>2 DEF None

\* What a session may do while it is the one that is shown, and how it may be
\* dropped.
Tells ==
    /\ kind' = kind /\ faults' \in [store : Nat, crash : Nat] /\ faults'.crash = faults.crash
    /\ status' \in {status, "running", "stopping", "complete", "stopped", "error"}
    /\ noted' \in {noted, status, "stopping"}
    /\ status' = "error" => status = "error" \/ main'.failed
    /\ Doomed => Doomed'
    /\ main.failed => main'.failed
    /\ main'.pc # "file" /\ (main'.pc = main.pc \/ main'.pc # "dead")
    /\ main.pc = "closed" => main'.pc = "closed"
    /\ report' = report \/ (~Doomed /\ report' # None /\ main.pc = "report")
    /\ (report # None => main.pc \in {"status", "publish", "ended", "closed"} /\ ~main.failed) =>
          (report' # None => main'.pc \in {"status", "publish", "ended", "closed"} /\ ~main'.failed)

LEMMA MainTells ==
  ASSUME RunnerInv, SingleInv, Main PROVE Tells
<1>1. /\ main = [pc |-> main.pc, cycle |-> main.cycle, queue |-> main.queue,
                 todo |-> main.todo, failed |-> main.failed, final |-> main.final]
      /\ main.failed => main.pc \in {"finally", "sweep", "failed", "publish", "ended", "closed"}
      /\ main.pc = "failed" => main.failed
  BY DEF RunnerInv, MainTypes, PoolInv
<1>2. /\ kind = "single" /\ Detector /\ main.pc # "file"
      /\ faults \in [store : Nat, crash : Nat]
  BY DEF SingleInv, Detector
<1>3. CASE BeginCycle \/ Queue \/ Submit
  <2>1. /\ UNCHANGED <<status, report, kind, faults, noted>>
        /\ main.pc \in {"cycle", "queue", "pool"}
    BY <1>2, <1>3 DEF BeginCycle, Queue, Submit, FreezeJobs, store, server
  <2>2. main'.pc \in {"queue", "cycled", "pool"} /\ main'.failed = main.failed
    BY <1>1, <1>2, <1>3 DEF BeginCycle, Queue, Submit, Enter, Go
  <2>3. QED
    BY <1>1, <1>2, <2>1, <2>2 DEF Tells, Doomed
<1>4. CASE (\E j \in Jobs : Collect(j)) \/ Leave \/ Finally
  <2>1. UNCHANGED <<status, report, kind, faults, noted>> /\ main.pc \in {"pool", "finally"}
    BY <1>4 DEF Collect, Leave, Finally, store, server
  <2>2. /\ main'.pc \in {"pool", "finally", "sweep", "failed", "cycled"}
        /\ main.failed => main'.failed
    BY <1>1, <1>4 DEF Collect, Leave, Finally, Go
  <2>3. QED
    BY <1>1, <1>2, <2>1, <2>2 DEF Tells, Doomed
<1>5. CASE Sweep \/ Cycled \/ Wake
  <2>1. /\ UNCHANGED <<status, report, kind, faults, noted>>
        /\ main.pc \in {"sweep", "cycled", "sleep"}
    BY <1>2, <1>5 DEF Sweep, Cycled, Wake, RecordCancelled, CancelRunningAttempts, store, server
  <2>2. /\ main'.pc \in {"sweep", "failed", "cycled", "sleep", "report", "cycle"}
        /\ main'.failed = main.failed
    BY <1>1, <1>2, <1>5 DEF Sweep, Cycled, Wake, Go
  <2>3. QED
    BY <1>1, <1>2, <2>1, <2>2 DEF Tells, Doomed
<1>6. CASE Report
  <2>1. /\ UNCHANGED <<status, kind, faults, noted>> /\ main.pc = "report"
        /\ SaveReport(signal.stop) /\ Go("status")
    BY <1>2, <1>6 DEF Report, SaveReport, server
  <2>2. report' # None /\ main'.pc = "status" /\ main'.failed = main.failed
    BY <1>1, <2>1, SavedIsThere DEF Go
  <2>3. QED
    BY <1>1, <1>2, <2>1, <2>2 DEF Tells, Doomed
<1>7. CASE Status \/ Failed \/ Publish
  <2>1. /\ UNCHANGED <<report, kind, faults>> /\ main.pc \in {"status", "failed", "publish"}
        /\ status' \in {status, "stopped", "complete", "error"}
        /\ status' = "error" => main.pc = "failed" \/ status = "error"
        /\ noted' \in {noted, status}
    BY <1>2, <1>7 DEF Status, Failed, Publish, SetStatus, store, server
  <2>2. main'.pc \in {"publish", "ended"} /\ main'.failed = main.failed
    BY <1>1, <1>7 DEF Status, Failed, Publish, Go
  <2>3. QED
    BY <1>1, <1>2, <2>1, <2>2 DEF Tells, Doomed
<1>8. QED
  BY <1>2, <1>3, <1>4, <1>5, <1>6, <1>7 DEF Main, File

LEMMA ThreadTells ==
  ASSUME SingleInv, NEW j \in Jobs, Thread(j) \/ Raise(j) PROVE Tells
<1>1. UNCHANGED <<main, report, kind, noted>>
  BY DEF Thread, Raise, Check, Start, Answer, Fail, Finish, Halt, RecordCancelled, StartAttempt,
     FinishAttempt, SetStatus, store, server
<1>2. status' \in {status, "stopping"}
  BY DEF Thread, Raise, Check, Start, Answer, Fail, Finish, Halt, RecordCancelled, StartAttempt,
     FinishAttempt, SetStatus, store
<1>3. faults' \in [store : Nat, crash : Nat] /\ faults'.crash = faults.crash
  <2>1. CASE Thread(j)
    BY <2>1 DEF Thread, Check, Start, Answer, Fail, Finish, Halt, server, SingleInv
  <2>2. CASE Raise(j)
    BY <2>2 DEF Raise, SingleInv
  <2>3. QED
    BY <2>1, <2>2
<1>4. QED
  BY <1>1, <1>2, <1>3 DEF Tells, Doomed, SingleInv

LEMMA SessionTells ==
  ASSUME RunnerInv, SingleInv,
         Session \/ ((StopRequested \/ UNCHANGED vars) /\ UNCHANGED <<sid, made>>)
  PROVE  Tells /\ RunnerInv' /\ sid' = sid
<1>1. RunnerInv'
  BY RunnerStep DEF Session, Next
<1>2. sid' = sid
  BY DEF Session
<1>3. CASE Main \/ \E j \in Jobs : Thread(j) \/ Raise(j)
  BY <1>1, <1>2, <1>3, MainTells, ThreadTells
<1>4. CASE StopRecorded \/ StopRequested \/ UNCHANGED vars
  <2>1. /\ UNCHANGED <<main, report, kind, faults>> /\ status' \in {status, "stopping"}
        /\ noted' \in {noted, "stopping"}
    BY <1>4 DEF StopRecorded, StopRequested, SetStatus, vars, store, run, server
  <2>2. QED
    BY <1>1, <1>2, <2>1 DEF Tells, Doomed, SingleInv
<1>5. QED
  BY <1>3, <1>4 DEF Session

LEMMA TellsSingle ==
  ASSUME SingleInv, Tells, sid' = sid PROVE SingleInv'
<1>1. status' = "error" \/ noted' = "error" => Doomed'
  <2>1. main'.failed => Doomed'
    BY DEF Doomed
  <2>2. QED
    BY <2>1 DEF SingleInv, Tells
<1>2. QED
  BY <1>1 DEF SingleInv, Tells

(* A step of a call that looks at nothing, or only starts to, and of the   *)
(* runs it makes or ends.                                                  *)
LEMMA OthersTell ==
  ASSUME ReportsInv, FlightInv', RunnerInv', Tells, sid' = sid,
         \A d \in Callers :
            \/ call'[d] = call[d]
            \/ /\ call'[d].pc \notin {"apply", "cache"} /\ call[d].pc # "cache"
               /\ call'[d].sid \in 0..sid
            \/ /\ call'[d].pc = "apply" /\ call[d].pc # "cache"
               /\ call'[d].sid = sid /\ call'[d].seen[1] \in {status, noted},
         \A k \in Keys :
            \/ runs'[k] = runs[k]
            \/ runs'[k].report = "none" /\ runs'[k].sid \in 0..sid
  PROVE  ReportsInv'
<1>1. SingleInv'
  BY TellsSingle DEF ReportsInv
<1>2. BoundInv'
  BY DEF ReportsInv, FlightInv, SessionInv, BoundInv
<1>3. \A d \in Callers : SawFailure(d)' =>
         \/ SawFailure(d) /\ call'[d] = call[d]
         \/ call'[d].sid = sid /\ (status = "error" \/ noted = "error")
  <2>1. SUFFICES ASSUME NEW d \in Callers, SawFailure(d)', call'[d] # call[d]
                 PROVE  call'[d].sid = sid /\ (status = "error" \/ noted = "error")
    BY DEF SawFailure, Looks
  <2>2. /\ call'[d].sid = sid /\ call'[d].seen[1] \in {status, noted} /\ sid # 0
        /\ PrivateStatus(call'[d].seen[1]) = "failed"
    BY <2>1 DEF SawFailure, Looks, FlightInv, NumberInv
  <2>3. QED
    BY <2>2 DEF ReportsInv, SingleInv, PrivateStatus
<1>4. FailureInv'
  <2>1. ASSUME NEW c \in Callers, SawFailure(c)', call'[c].sid = sid PROVE Doomed'
    BY <1>3, <2>1 DEF ReportsInv, FailureInv, SingleInv, Tells
  <2>2. ASSUME NEW k \in Keys, runs'[k].report # "none", runs'[k].sid = sid, report' = None
        PROVE  Doomed'
    BY <2>2 DEF ReportsInv, FailureInv, Tells
  <2>3. QED
    BY <2>1, <2>2 DEF FailureInv
<1>5. StatusInv'
  <2>1. SUFFICES ASSUME NEW k \in Keys, runs'[k].report # "none", runs'[k].sid = sid,
                        report' # None, ~Detached', runs'[k].status # runs'[k].report
                 PROVE  \E c \in Callers : /\ call'[c].pc = "cache" /\ call'[c].key = k
                                           /\ call'[c].sid = sid
    BY DEF StatusInv
  <2>2. runs'[k] = runs[k]
    BY <2>1
  <2>3. report # None /\ ~Detached
    BY <2>1, <2>2 DEF ReportsInv, FailureInv, Tells, Detached
  <2>4. PICK c \in Callers : call[c].pc = "cache" /\ call[c].key = k /\ call[c].sid = sid
    BY <2>1, <2>2, <2>3 DEF ReportsInv, StatusInv
  <2>5. QED
    BY <2>4
<1>6. FirstLifeInv'
  <2>1. SUFFICES ASSUME faults'.crash = 0 PROVE FirstLifeInv'
    BY DEF FirstLifeInv
  <2>2. /\ faults.crash = 0 /\ main.pc # "dead"
        /\ report # None => main.pc \in {"status", "publish", "ended", "closed"} /\ ~main.failed
        /\ status = "error" \/ noted = "error" => main.failed
    BY <2>1 DEF Tells, ReportsInv, FirstLifeInv
  <2>3. /\ report' # None => main'.pc \in {"status", "publish", "ended", "closed"} /\ ~main'.failed
        /\ main'.pc # "dead"
        /\ status' = "error" \/ noted' = "error" => main'.failed
    BY <2>2 DEF Tells
  <2>4. ASSUME NEW k \in Keys, runs'[k].report # "none", runs'[k].sid = sid
        PROVE  runs'[k].report = Tale' /\ runs[k].report = Tale /\ runs'[k] = runs[k]
    <3>1. runs'[k] = runs[k] /\ runs[k].report = Tale
      BY <2>2, <2>4 DEF ReportsInv, FirstLifeInv
    <3>2. report' = report
      BY <2>2, <2>4, <3>1 DEF Tells, ReportsInv, FailureInv
    <3>3. QED
      BY <3>1, <3>2 DEF Tale
  <2>5. ASSUME NEW c \in Callers, NEW k \in Keys, SawFailure(c)', call'[c].key = k,
               runs'[k].sid = call'[c].sid, runs'[k].report # "none"
        PROVE  runs'[k].report = "failed"
    <3>1. runs'[k] = runs[k]
      BY <2>5
    <3>2. CASE SawFailure(c) /\ call'[c] = call[c]
      BY <2>2, <2>5, <3>1, <3>2 DEF ReportsInv, FirstLifeInv
    <3>3. CASE call'[c].sid = sid /\ (status = "error" \/ noted = "error")
      <4>1. sid # 0 /\ runs[k].report = Tale
        BY <2>4, <2>5, <3>1, <3>3 DEF FlightInv, NumberInv, SawFailure, Looks
      <4>2. main.failed
        BY <2>2, <3>3
      <4>3. QED
        BY <2>2, <3>1, <4>1, <4>2 DEF Tale
    <3>4. QED
      BY <1>3, <2>5, <3>2, <3>3
  <2>6. ASSUME NEW c \in Callers, SawFailure(c)', call'[c].sid = sid PROVE main'.failed
    <3>1. main.failed
      BY <1>3, <2>2, <2>6 DEF ReportsInv, FirstLifeInv
    <3>2. QED
      BY <3>1 DEF Tells
  <2>7. QED
    BY <2>3, <2>4, <2>5, <2>6 DEF FirstLifeInv
<1>7. QED
  BY <1>1, <1>2, <1>4, <1>5, <1>6 DEF ReportsInv

LEMMA ShapesOf ==
  ASSUME ReportsInv
  PROVE  /\ call = [c \in Callers |-> call[c]] /\ \A c \in Callers : IsCall(call[c])
         /\ runs = [k \in Keys |-> runs[k]] /\ \A k \in Keys : IsRun(runs[k])
         /\ sid \in Nat /\ \A c \in Callers : call[c].sid \in 0..sid
         /\ \A k \in Keys : runs[k].sid \in 0..sid
  BY DEF ReportsInv, FlightInv, ApiTypes, SessionInv, BoundInv

LEMMA CreateTells ==
  ASSUME ReportsInv, FlightInv', NEW c \in Callers, NEW k \in Keys, Create(c, k)
  PROVE  ReportsInv'
<1>1. Tells /\ RunnerInv' /\ sid' = sid /\ UNCHANGED runs /\ call[c].pc = "free"
  BY SessionTells DEF Create, session, ReportsInv
<1>2. PICK p \in {"start", "wait"} : call' = [call EXCEPT ![c].pc = p, ![c].key = k]
  BY DEF Create
<1>3. call'[c].pc = p /\ call'[c].sid = call[c].sid /\ \A d \in Callers \ {c} : call'[d] = call[d]
  <2>1. /\ call'[c] = [call[c] EXCEPT !.pc = p, !.key = k] /\ IsCall(call[c])
        /\ \A d \in Callers \ {c} : call'[d] = call[d]
    BY <1>2, ShapesOf
  <2>2. call'[c] = [pc |-> p, key |-> k, sid |-> call[c].sid, seen |-> call[c].seen,
                   cancel |-> call[c].cancel]
    BY <2>1 DEF IsCall
  <2>3. QED
    BY <2>1, <2>2
<1>4. QED
  BY <1>1, <1>3, ShapesOf, OthersTell

LEMMA LookTells ==
  ASSUME ReportsInv, FlightInv', NEW c \in Callers, NEW k \in Keys, NEW cancel \in BOOLEAN,
         Look(c, k, cancel)
  PROVE  ReportsInv'
<1>1. Tells /\ RunnerInv' /\ sid' = sid /\ UNCHANGED runs /\ call[c].pc = "free"
  BY SessionTells DEF Look, session, ReportsInv
<1>2. /\ call'[c].pc = "apply" /\ call'[c].sid = sid
      /\ call'[c].seen[1] \in {status, noted}
      /\ \A d \in Callers \ {c} : call'[d] = call[d]
  BY ShapesOf DEF Look, Seen
<1>3. QED
  BY <1>1, <1>2, OthersTell

\* The calls that end, and whoever waited for them.
LEMMA ReleaseTells ==
  ASSUME ReportsInv, FlightInv', Tells, RunnerInv', sid' = sid,
         NEW c \in Callers, call[c].pc \in {"start", "record"}, NEW k, Release(c, k),
         \A l \in Keys :
            runs'[l] = runs[l] \/ (runs'[l].report = "none" /\ runs'[l].sid \in 0..sid)
  PROVE  ReportsInv'
<1>1. ASSUME NEW d \in Callers
      PROVE  \/ call'[d] = call[d]
             \/ /\ call'[d].pc \notin {"apply", "cache"} /\ call[d].pc # "cache"
                /\ call'[d].sid \in 0..sid
  <2>1. CASE d = c
    BY <2>1, ShapesOf DEF Release, Free
  <2>2. CASE d # c /\ call'[d] # call[d]
    <3>1. call'[d] = [call[d] EXCEPT !.pc = "woken"] /\ call[d].pc = "wait"
      BY <2>2 DEF Release
    <3>2. call'[d].pc = "woken" /\ call'[d].sid = call[d].sid
      BY <3>1, ShapesOf DEF IsCall
    <3>3. QED
      BY <3>1, <3>2, ShapesOf
  <2>3. QED
    BY <2>1, <2>2
<1>2. QED
  BY <1>1, OthersTell

LEMMA RecordRunTells ==
  ASSUME ReportsInv, FlightInv', NEW c \in Callers, RecordRun(c)
  PROVE  ReportsInv'
<1> DEFINE r == [NoRun EXCEPT !.sid = call[c].sid, !.status = "running"]
<1>1. Tells /\ RunnerInv' /\ sid' = sid
  BY SessionTells DEF RecordRun, session, ReportsInv
<1>2. r.report = "none" /\ r.sid = call[c].sid
  BY DEF NoRun
<1>3. runs' = [runs EXCEPT ![call[c].key] = r] /\ call[c].pc = "record"
      /\ Release(c, call[c].key)
  BY DEF RecordRun
<1> HIDE DEF r
<1>4. \A l \in Keys :
        runs'[l] = runs[l] \/ (runs'[l].report = "none" /\ runs'[l].sid \in 0..sid)
  BY <1>2, <1>3, ShapesOf
<1>5. QED
  BY <1>1, <1>3, <1>4, ReleaseTells

LEMMA RestTells ==
  ASSUME ReportsInv, FlightInv', NEW c \in Callers, Follow(c) \/ Compare(c) \/ Stop(c)
  PROVE  ReportsInv'
<1>1. ((StopRequested \/ UNCHANGED vars) /\ UNCHANGED <<sid, made>>) /\ UNCHANGED runs
      /\ call[c].pc # "cache"
  BY DEF Follow, Compare, Stop, session
<1>2. Tells /\ RunnerInv' /\ sid' = sid
  BY <1>1, SessionTells DEF ReportsInv
<1>3. PICK r \in {Free, [call[c] EXCEPT !.pc = "stop"]} : call' = [call EXCEPT ![c] = r]
  <2>1. CASE Follow(c) \/ Stop(c)
    BY <2>1 DEF Follow, Stop
  <2>2. CASE Compare(c)
    BY <2>2 DEF Compare
  <2>3. QED
    BY <2>1, <2>2
<1>4. r.pc \in {"free", "stop"} /\ r.sid \in 0..sid
  BY <1>3, ShapesOf DEF IsCall, Free
<1>5. call'[c] = r /\ \A d \in Callers \ {c} : call'[d] = call[d]
  BY <1>3, ShapesOf
<1>6. QED
  BY <1>1, <1>2, <1>4, <1>5, OthersTell

LEMMA ExpireTells ==
  ASSUME ReportsInv, FlightInv', NEW k \in Keys, Expire(k)
  PROVE  ReportsInv'
<1>1. Tells /\ RunnerInv' /\ sid' = sid /\ UNCHANGED call
  BY SessionTells DEF Expire, session, ReportsInv
<1>2. runs'[k] = NoRun /\ \A l \in Keys \ {k} : runs'[l] = runs[l]
  BY ShapesOf DEF Expire
<1>3. QED
  BY <1>1, <1>2, ShapesOf, OthersTell DEF NoRun

LEMMA MovesTell ==
  ASSUME ReportsInv, FlightInv', Session \/ UNCHANGED apivars
  PROVE  ReportsInv'
<1>1. Tells /\ RunnerInv' /\ sid' = sid /\ UNCHANGED <<runs, call>>
  BY SessionTells DEF Session, apivars, ReportsInv
<1>2. QED
  BY <1>1, OthersTell
-----------------------------------------------------------------------------
(* A look applies what it saw, and tells the report.                       *)

LEMMA ApplyTells ==
  ASSUME ReportsInv, FlightInv', NEW c \in Callers, Apply(c)
  PROVE  ReportsInv'
<1>1. Tells /\ RunnerInv' /\ sid' = sid /\ call[c].pc = "apply"
      /\ UNCHANGED <<status, noted, report, main, faults>>
  BY SessionTells DEF Apply, session, ReportsInv, vars, store, run, server
<1>2. /\ call'[c].pc = "cache" /\ call'[c].key = call[c].key /\ call'[c].sid = call[c].sid
      /\ call'[c].seen = call[c].seen /\ \A d \in Callers \ {c} : call'[d] = call[d]
  BY ShapesOf DEF Apply, ToStep, IsCall
<1>3. \A l \in Keys : /\ runs'[l].sid = runs[l].sid /\ runs'[l].report = runs[l].report
                      /\ \/ runs'[l] = runs[l]
                         \/ l = call[c].key /\ runs[l].sid = call[c].sid
  <2> DEFINE k == call[c].key  seen == call[c].seen
  <2>1. CASE UNCHANGED runs
    BY <2>1
  <2>2. CASE /\ runs[k].sid = call[c].sid
             /\ runs' = [runs EXCEPT ![k].status = PrivateStatus(seen[1]), ![k].snap = seen]
    <3>1. k \in Keys
      BY <1>1 DEF ReportsInv, FlightInv, NumberInv
    <3>2. \A l \in Keys \ {k} : runs'[l] = runs[l]
      BY <2>2, ShapesOf
    <3>3. /\ runs'[k] = [runs[k] EXCEPT !.status = PrivateStatus(seen[1]), !.snap = seen]
          /\ IsRun(runs[k])
      BY <2>2, <3>1, ShapesOf
    <3>4. runs'[k].sid = runs[k].sid /\ runs'[k].report = runs[k].report
      <4> HIDE DEF k, seen
      <4>1. runs'[k] = [sid |-> runs[k].sid, status |-> PrivateStatus(seen[1]),
                        report |-> runs[k].report, snap |-> seen]
        BY <3>3 DEF IsRun
      <4>2. QED
        BY <4>1
    <3>5. QED
      BY <2>2, <3>2, <3>4
  <2>3. QED
    BY <2>1, <2>2 DEF Apply
<1>4. \A d \in Callers : SawFailure(d)' => SawFailure(d)
  BY <1>1, <1>2 DEF SawFailure, Looks
<1>5. \A d \in Callers : call'[d].sid = call[d].sid /\ call'[d].key = call[d].key
  BY <1>2
<1>6. SingleInv' /\ BoundInv'
  BY <1>1, <1>3, <1>5, TellsSingle DEF ReportsInv, BoundInv
<1>7. FailureInv'
  BY <1>1, <1>3, <1>4, <1>5 DEF ReportsInv, FailureInv, Doomed
<1>8. FirstLifeInv'
  BY <1>1, <1>3, <1>4, <1>5 DEF ReportsInv, FirstLifeInv, Tale
<1>9. StatusInv'
  <2>1. SUFFICES ASSUME NEW k \in Keys, runs'[k].report # "none", runs'[k].sid = sid,
                        report' # None, ~Detached, runs'[k].status # runs'[k].report
                 PROVE  \E d \in Callers : /\ call'[d].pc = "cache" /\ call'[d].key = k
                                           /\ call'[d].sid = sid
    BY <1>1 DEF StatusInv, Detached
  <2>2. CASE runs'[k] = runs[k]
    <3>1. PICK d \in Callers : call[d].pc = "cache" /\ call[d].key = k /\ call[d].sid = sid
      BY <1>1, <2>1, <2>2 DEF ReportsInv, StatusInv
    <3>2. QED
      BY <1>1, <1>2, <3>1
  <2>3. CASE k = call[c].key /\ runs[k].sid = call[c].sid
    BY <1>2, <1>3, <2>1, <2>3
  <2>4. QED
    BY <1>3, <2>2, <2>3
<1>10. QED
  BY <1>1, <1>6, <1>7, <1>8, <1>9 DEF ReportsInv

LEMMA CacheTells ==
  ASSUME ReportsInv, FlightInv', NEW c \in Callers, Cache(c)
  PROVE  /\ ReportsInv'
         /\ faults.crash = 0 => \A k \in Keys : runs[k].report # "none" =>
                                    runs'[k].report = runs[k].report
<1> DEFINE k == call[c].key
           told == ToldOf(call[c].sid)
           s == IF told THEN StatusOf(report) ELSE "failed"
<1>1. Tells /\ RunnerInv' /\ sid' = sid /\ call[c].pc = "cache"
      /\ UNCHANGED <<status, noted, report, main, faults>>
  BY SessionTells DEF Cache, session, ReportsInv, vars, store, run, server
<1>2. \A d \in Callers : \/ d # c /\ call'[d] = call[d]
                         \/ d = c /\ call'[d].pc \in {"compare", "free"} /\ call'[d].sid \in 0..sid
  BY ShapesOf DEF Cache, Free, IsCall
<1>3. \A l \in Keys \ {k} : runs'[l] = runs[l]
  BY ShapesOf DEF Cache
<1>4. \/ ~(runs[k].sid = call[c].sid /\ (told \/ SawFailure(c))) /\ runs'[k] = runs[k]
      \/ /\ runs[k].sid = call[c].sid /\ (told \/ SawFailure(c))
         /\ runs'[k].sid = runs[k].sid /\ runs'[k].status = s /\ runs'[k].report = s
  <2>1. k \in Keys /\ (PrivateStatus(call[c].seen[1]) = "failed" <=> SawFailure(c))
    BY <1>1 DEF ReportsInv, FlightInv, NumberInv, SawFailure, Looks
  <2>2. CASE UNCHANGED runs /\ ~(runs[k].sid = call[c].sid /\ (told \/ SawFailure(c)))
    BY <2>2
  <2>3. CASE /\ runs[k].sid = call[c].sid /\ (told \/ SawFailure(c))
             /\ runs' = [runs EXCEPT ![k].status = s, ![k].report = s]
    <3>1. runs'[k] = [runs[k] EXCEPT !.status = s, !.report = s] /\ IsRun(runs[k])
      BY <2>1, <2>3, ShapesOf
    <3> HIDE DEF k, s
    <3>2. runs'[k] = [sid |-> runs[k].sid, status |-> s, report |-> s, snap |-> runs[k].snap]
      BY <3>1 DEF IsRun
    <3>3. QED
      BY <2>3, <3>2
  <2>4. QED
    BY <2>1, <2>2, <2>3 DEF Cache
<1>5. k \in Keys /\ call[c].sid # 0 /\ call[c].key = k
  BY <1>1 DEF ReportsInv, FlightInv, NumberInv
<1>6. told => sid = call[c].sid /\ report # None /\ s = StatusOf(report)
  BY DEF ToldOf
<1>7. ~told => s = "failed" /\ (sid = call[c].sid => report = None \/ Detached)
  BY DEF ToldOf
<1> HIDE DEF k, told, s
<1>8. \A d \in Callers : SawFailure(d)' => SawFailure(d) /\ call'[d] = call[d]
  BY <1>1, <1>2 DEF SawFailure, Looks
<1>9. SingleInv' /\ BoundInv'
  BY <1>1, <1>2, <1>3, <1>4, ShapesOf, TellsSingle DEF ReportsInv, BoundInv
<1>10. FailureInv'
  <2>1. \A d \in Callers : SawFailure(d)' /\ call'[d].sid = sid => Doomed'
    BY <1>1, <1>8 DEF ReportsInv, FailureInv, Tells
  <2>2. ASSUME NEW l \in Keys, runs'[l].report # "none", runs'[l].sid = sid, report = None
        PROVE  Doomed
    <3>1. CASE runs'[l] = runs[l]
      BY <2>2, <3>1 DEF ReportsInv, FailureInv
    <3>2. CASE l = k /\ runs[k].sid = call[c].sid /\ SawFailure(c) /\ runs'[k].sid = runs[k].sid
      BY <2>2, <3>2 DEF ReportsInv, FailureInv
    <3>3. QED
      BY <1>3, <1>4, <1>6, <2>2, <3>1, <3>2
  <2>3. QED
    BY <1>1, <2>1, <2>2 DEF FailureInv, Doomed
<1>11. StatusInv'
  <2>1. SUFFICES ASSUME NEW l \in Keys, runs'[l].report # "none", runs'[l].sid = sid,
                        report # None, ~Detached, runs'[l].status # runs'[l].report
                 PROVE  \E d \in Callers : /\ call'[d].pc = "cache" /\ call'[d].key = l
                                           /\ call'[d].sid = sid
    BY <1>1 DEF StatusInv, Detached
  <2>2. runs'[l] = runs[l]
    BY <1>3, <1>4, <2>1
  <2>3. PICK d \in Callers : call[d].pc = "cache" /\ call[d].key = l /\ call[d].sid = sid
    BY <2>1, <2>2 DEF ReportsInv, StatusInv
  <2>4. d # c
    BY <1>4, <1>5, <1>7, <2>1, <2>2, <2>3
  <2>5. QED
    BY <1>2, <2>3, <2>4
<1>12. ASSUME faults.crash = 0
       PROVE  /\ \A l \in Keys : runs[l].report # "none" => runs'[l].report = runs[l].report
              /\ FirstLifeInv'
  <2>1. /\ main.pc # "dead"
        /\ report # None => main.pc \in {"status", "publish", "ended", "closed"} /\ ~main.failed
        /\ status = "error" \/ noted = "error" => main.failed
        /\ \A d \in Callers : SawFailure(d) /\ call[d].sid = sid => main.failed
        /\ \A l \in Keys : runs[l].report # "none" /\ runs[l].sid = sid => runs[l].report = Tale
        /\ SawFailure(c) /\ runs[k].sid = call[c].sid /\ runs[k].report # "none"
           => runs[k].report = "failed"
    BY <1>5, <1>12 DEF ReportsInv, FirstLifeInv
  <2>2. SawFailure(c) /\ call[c].sid = sid => report = None
    BY <2>1
  <2>3. runs'[k] # runs[k] \/ told \/ SawFailure(c) =>
           (runs[k].sid = call[c].sid /\ runs[k].report # "none" => runs[k].report = s)
    BY <1>4, <1>5, <1>6, <1>7, <2>1, <2>2 DEF Tale
  <2>4. \A l \in Keys : runs[l].report # "none" => runs'[l].report = runs[l].report
    BY <1>3, <1>4, <2>3
  <2>5. ASSUME NEW l \in Keys, runs'[l].report # "none", runs'[l].sid = sid
        PROVE  runs'[l].report = Tale
    <3>1. CASE runs'[l] = runs[l]
      BY <2>1, <2>5, <3>1
    <3>2. CASE l = k /\ runs'[k].report = s /\ runs[k].sid = call[c].sid
                 /\ runs'[k].sid = runs[k].sid /\ (told \/ SawFailure(c))
      BY <1>6, <1>7, <2>2, <2>5, <3>2 DEF Tale
    <3>3. QED
      BY <1>3, <1>4, <3>1, <3>2
  <2>6. ASSUME NEW d \in Callers, NEW l \in Keys, SawFailure(d)', call'[d].key = l,
               runs'[l].sid = call'[d].sid, runs'[l].report # "none"
        PROVE  runs'[l].report = "failed"
    <3>1. SawFailure(d) /\ call[d].key = l /\ runs'[l].sid = call[d].sid
      BY <1>8, <2>6
    <3>2. CASE runs'[l] = runs[l]
      BY <1>12, <2>6, <3>1, <3>2 DEF ReportsInv, FirstLifeInv
    <3>3. CASE l = k /\ runs'[k].report = s /\ runs[k].sid = call[c].sid
                 /\ runs'[k].sid = runs[k].sid
      <4>1. CASE ~told
        BY <1>7, <3>3, <4>1
      <4>2. CASE told
        <5>1. call[d].sid = sid /\ report # None
          BY <1>6, <3>1, <3>3, <4>2
        <5>2. QED
          BY <2>1, <3>1, <5>1
      <4>3. QED
        BY <4>1, <4>2
    <3>4. QED
      BY <1>3, <1>4, <3>2, <3>3
  <2>7. \A d \in Callers : SawFailure(d)' /\ call'[d].sid = sid => main.failed
    BY <1>8, <2>1
  <2>8. QED
    BY <1>1, <2>1, <2>4, <2>5, <2>6, <2>7 DEF FirstLifeInv, Tale
<1>13. FirstLifeInv'
  BY <1>1, <1>12 DEF FirstLifeInv
<1>14. QED
  BY <1>1, <1>9, <1>10, <1>11, <1>12, <1>13 DEF ReportsInv
-----------------------------------------------------------------------------
(* Sessions that start, and processes that end.                            *)

\* A session as it is created, in a process that is at p.
Fresh(p) ==
    /\ report = None /\ status \in {"running", "interrupted"} /\ kind = "single"
    /\ job = [j \in Jobs |-> "absent"]
    /\ attempt = [j \in Jobs |-> [n \in Numbers |-> "none"]]
    /\ begun = {} /\ over = {}
    /\ main = [AtStart EXCEPT !.pc = p] /\ pool = {} /\ thread = Threads /\ signal = NoSignal

LEMMA FreshIsRight ==
  ASSUME NEW p \in {"cycle", "closed", "dead"} PROVE Fresh(p) => RunnerInv
<1> SUFFICES ASSUME Fresh(p) PROVE RunnerInv
  OBVIOUS
<1> USE DEF Fresh, CreateSession, AtStart, NoThread, Threads, NoSignal
<1>1. RowTypes /\ ThreadTypes /\ MainTypes
  BY DEF RowTypes, ThreadTypes, MainTypes, IsThread
<1>2. FrozenInv /\ AnswerIsStored
  BY DEF FrozenInv, AnswerIsStored, Used
<1>3. PoolInv /\ AttemptInv /\ OpenInv
  BY DEF PoolInv, AttemptInv, OpenInv, Open
<1>4. JobsOf(0) = {}
  BY RunnerAssumption DEF JobsOf, Jobs, Cycles
<1>5. PendingInv /\ QuietInv /\ ReportInv
  BY <1>4 DEF PendingInv, QuietInv, ReportInv, Quiet, Reported, Pending, Open
<1>6. QED
  BY <1>1, <1>2, <1>3, <1>5 DEF RunnerInv

LEMMA FreshNext == Fresh("cycle")' \/ Fresh("dead")' => RunnerInv'
<1>1. Fresh("cycle") \/ Fresh("dead") => RunnerInv
  BY FreshIsRight
<1>2. QED
  BY <1>1, PTL

LEMMA NewSessionTells ==
  ASSUME ReportsInv, FlightInv', UNCHANGED runs, NewSession, NEW c \in Callers,
         call[c].pc = "start", call' = [call EXCEPT ![c].pc = "record", ![c].sid = sid']
  PROVE  ReportsInv'
<1>1. sid \in Nat /\ sid' \in Nat /\ sid' > sid
  BY DEF NewSession, ReportsInv, FlightInv, SessionInv
<1>2. /\ main'.pc = "cycle" /\ status' = "running" /\ report' = None /\ kind' = kind
      /\ faults' = faults /\ kind = "single" /\ noted' = "running"
  BY DEF NewSession, Begin, AtStart, ReportsInv, SingleInv
<1>3. RunnerInv'
  <2>1. Fresh("cycle")'
    BY <1>2 DEF NewSession, Begin, Fresh, AtStart
  <2>2. QED
    BY <2>1, FreshNext
<1>4. SingleInv'
  BY <1>2 DEF ReportsInv, SingleInv
<1>5. \A d \in Callers : \/ d # c /\ call'[d] = call[d]
                         \/ d = c /\ call'[d].pc = "record" /\ call'[d].sid = sid'
  BY ShapesOf DEF IsCall
<1>6. BoundInv'
  BY <1>1, <1>5, ShapesOf DEF BoundInv
<1>7. /\ \A d \in Callers : Looks(d)' => /\ call'[d] = call[d] /\ call'[d].sid # sid'
      /\ \A k \in Keys : runs'[k].sid # sid'
  BY <1>1, <1>5, ShapesOf DEF Looks
<1>8. FailureInv' /\ StatusInv'
  BY <1>2, <1>7 DEF FailureInv, StatusInv, SawFailure
<1>9. FirstLifeInv'
  <2>1. \A d \in Callers : SawFailure(d)' => /\ SawFailure(d) /\ call'[d] = call[d]
                                             /\ call'[d].sid # sid'
    BY <1>7 DEF SawFailure, Looks
  <2>2. QED
    BY <1>2, <1>7, <2>1 DEF ReportsInv, FirstLifeInv
<1>10. QED
  BY <1>3, <1>4, <1>6, <1>8, <1>9 DEF ReportsInv

\* The session that is resumed was interrupted: nothing says that it has failed.
LEMMA ResumeTells ==
  ASSUME ReportsInv, FlightInv', UNCHANGED <<runs, sid>>, Resume, NEW c \in Callers,
         call[c].pc = "start", call' = [call EXCEPT ![c].pc = "record", ![c].sid = sid']
  PROVE  ReportsInv'
<1>1. /\ main.pc = "dead" /\ main'.pc = "cycle" /\ status' = "running"
      /\ noted' = "running" /\ UNCHANGED <<report, kind, faults>>
  BY DEF Resume, Reopen, Begin, AtStart
<1>2. RunnerInv'
  BY RunnerStep DEF ReportsInv, Next
<1>3. ~Doomed /\ faults'.crash # 0
  BY <1>1 DEF ReportsInv, RunnerInv, PoolInv, FirstLifeInv, Doomed, Resume
<1>4. SingleInv' /\ FirstLifeInv'
  BY <1>1, <1>3 DEF ReportsInv, SingleInv, FirstLifeInv
<1>5. \A d \in Callers : \/ d # c /\ call'[d] = call[d]
                         \/ d = c /\ call'[d].pc = "record" /\ call'[d].sid = sid
  BY ShapesOf DEF IsCall
<1>6. BoundInv'
  BY <1>5, ShapesOf DEF BoundInv
<1>7. FailureInv'
  <2>1. \A d \in Callers : SawFailure(d)' => SawFailure(d) /\ call'[d] = call[d]
    BY <1>5 DEF SawFailure, Looks
  <2>2. QED
    BY <1>1, <1>3, <2>1 DEF ReportsInv, FailureInv
<1>8. StatusInv'
  <2>1. SUFFICES ASSUME NEW k \in Keys, runs[k].report # "none", runs[k].sid = sid,
                        report # None, runs[k].status # runs[k].report
                 PROVE  \E d \in Callers : /\ call'[d].pc = "cache" /\ call'[d].key = k
                                           /\ call'[d].sid = sid
    BY <1>1 DEF StatusInv
  <2>2. PICK d \in Callers : call[d].pc = "cache" /\ call[d].key = k /\ call[d].sid = sid
    BY <1>1, <2>1 DEF ReportsInv, StatusInv, Detached
  <2>3. QED
    BY <1>5, <2>2
<1>9. QED
  BY <1>2, <1>4, <1>6, <1>7, <1>8 DEF ReportsInv

\* A start that fails keeps the rows of the session it drops.
LEMMA FailedTells ==
  ASSUME ReportsInv, FailedNew \/ FailedResume
  PROVE  Tells /\ RunnerInv'
<1>1. CASE UNCHANGED vars
  <2>1. UNCHANGED <<main, report, kind, faults, status, noted>>
    BY <1>1 DEF vars, store, run, server
  <2>2. Tells
    BY <2>1 DEF Tells, Doomed, ReportsInv, SingleInv
  <2>3. QED
    BY <1>1, <2>2, NothingKeeps DEF ReportsInv
<1>2. CASE Drop /\ (UNCHANGED store \/ SetStatus("running") \/ (Reopen /\ ~main.failed))
  <2>1. /\ MainTypes' /\ main'.pc = "closed" /\ main'.failed = main.failed
        /\ pool' = {} /\ thread' = Threads /\ UNCHANGED <<kind, faults, noted>>
    BY <1>2, Dropped DEF ReportsInv
  <2>2. UNCHANGED report /\ status' \in {status, "running"}
    BY <1>2 DEF store, SetStatus, Reopen
  <2>3. Tells
    <3>1. Doomed' /\ kind = "single" /\ faults \in [store : Nat, crash : Nat]
      BY <2>1 DEF Doomed, ReportsInv, SingleInv
    <3>2. QED
      BY <2>1, <2>2, <3>1 DEF Tells
  <2>4. RunnerInv'
    <3>1. CASE UNCHANGED store \/ SetStatus("running")
      BY <1>2, <3>1, DropKeeps DEF store, SetStatus, ReportsInv
    <3>2. CASE Reopen /\ ~main.failed
      BY <2>1, <3>2, ReopenKeeps DEF ReportsInv
    <3>3. QED
      BY <1>2, <3>1, <3>2
  <2>5. QED
    BY <2>3, <2>4
<1>3. main.pc = "dead" => ~main.failed
  BY DEF ReportsInv, RunnerInv, PoolInv
<1>4. QED
  BY <1>1, <1>2, <1>3 DEF FailedNew, FailedResume, Close

LEMMA StartRunTells ==
  ASSUME ReportsInv, FlightInv', NEW c \in Callers, StartRun(c)
  PROVE  ReportsInv'
<1>1. CASE /\ Release(c, call[c].key)
           /\ UNCHANGED session \/ ((FailedNew \/ FailedResume) /\ UNCHANGED sid)
  <2>1. Tells /\ RunnerInv' /\ sid' = sid /\ UNCHANGED runs /\ call[c].pc = "start"
    BY <1>1, SessionTells, FailedTells DEF StartRun, session, ReportsInv
  <2>2. QED
    BY <1>1, <2>1, ReleaseTells
<1>2. CASE /\ NewSession \/ (Resume /\ UNCHANGED <<sid, made>>)
           /\ call' = [call EXCEPT ![c].pc = "record", ![c].sid = sid']
  BY <1>2, NewSessionTells, ResumeTells DEF StartRun
<1>3. QED
  BY <1>1, <1>2 DEF StartRun

LEMMA RestartedTells ==
  ASSUME ReportsInv, FlightInv', Restarted
  PROVE  ReportsInv'
<1>1. /\ \A k \in Keys : runs'[k] = NoRun
      /\ \A c \in Callers : call'[c] = Free
      /\ sid' \in Nat /\ Die /\ status' \in {status, "interrupted"}
      /\ (Crash /\ sid' = sid) \/ (RestoreNewest /\ sid' = made /\ made # 0)
  BY ShapesOf DEF Restarted, Crash, RestoreNewest, RestoreSession, SetStatus, ReportsInv,
     FlightInv, SessionInv
<1>2. RunnerInv'
  <2>1. CASE RestoreSession
    BY <1>1, <2>1, DieKeeps DEF ReportsInv, RestoreSession, SetStatus
  <2>2. CASE RestoreNewest /\ ~RestoreSession
    <3>1. Fresh("dead")'
      BY <2>2 DEF RestoreNewest, Die, Fresh, ReportsInv, SingleInv
    <3>2. QED
      BY <3>1, FreshNext
  <2>3. QED
    BY <1>1, <2>1, <2>2 DEF Crash
<1>3. /\ faults'.crash # 0 /\ faults' \in [store : Nat, crash : Nat] /\ kind' = kind
      /\ main'.pc = "dead" /\ noted' = status'
  BY <1>1 DEF Die, AtStart, ReportsInv, SingleInv
<1>4. SingleInv'
  BY <1>1, <1>3 DEF ReportsInv, SingleInv, Doomed
<1>5. BoundInv'
  BY <1>1 DEF BoundInv, NoRun, Free
<1>6. FailureInv' /\ StatusInv' /\ FirstLifeInv'
  BY <1>1, <1>3 DEF FailureInv, StatusInv, FirstLifeInv, SawFailure, Looks, NoRun, Free
<1>7. QED
  BY <1>2, <1>4, <1>5, <1>6 DEF ReportsInv

LEMMA ReportsStep == ReportsInv /\ [ApiNext]_apivars => ReportsInv'
<1> SUFFICES ASSUME ReportsInv, [ApiNext]_apivars PROVE ReportsInv'
  OBVIOUS
<1>1. FlightInv'
  BY FlightStep DEF ReportsInv
<1>2. ASSUME NEW c \in Callers, Caller(c) PROVE ReportsInv'
  BY <1>1, <1>2, StartRunTells, RecordRunTells, ApplyTells, CacheTells, RestTells DEF Caller
<1>3. QED
  BY <1>1, <1>2, MovesTell, RestartedTells, ExpireTells, CreateTells, LookTells DEF ApiNext

LEMMA ReportsInitial == ApiInit => ReportsInv
<1> SUFFICES ASSUME ApiInit PROVE ReportsInv
  OBVIOUS
<1>1. RunnerInv
  <2>1. Fresh("closed")
    BY DEF ApiInit, Fresh, CreateSession
  <2>2. QED
    BY <2>1, FreshIsRight
<1>2. /\ \A k \in Keys : runs[k] = NoRun
      /\ \A c \in Callers : call[c] = Free
      /\ sid = 0 /\ main.pc = "closed" /\ kind = "single" /\ status = "running" /\ noted = "idle"
      /\ report = None /\ faults \in [store : Nat, crash : Nat]
  BY DEF ApiInit, AtStart, CreateSession
<1>3. SingleInv
  BY <1>2 DEF SingleInv
<1>4. BoundInv /\ FailureInv /\ StatusInv /\ FirstLifeInv
  BY <1>2 DEF BoundInv, FailureInv, StatusInv, FirstLifeInv, SawFailure, Looks, NoRun, Free
<1>5. QED
  BY <1>1, <1>3, <1>4, FlightInitial DEF ReportsInv

LEMMA ReportsInvariant == ApiSpec => []ReportsInv
  BY ReportsInitial, ReportsStep, PTL DEF ApiSpec

(* Once every look is over the status of a run is that of its report, for  *)
(* any calls, keys, sessions and faults (_refresh and _cache_report).      *)
THEOREM StatusIsTheReportsCorrect == ApiSpec => []StatusIsTheReports
<1>1. ReportsInv => StatusIsTheReports
  BY DEF ReportsInv, StatusInv, StatusIsTheReports
<1>2. QED
  BY <1>1, ReportsInvariant, PTL

(* A report that was told is told again, as long as the process lives: two *)
(* looks may both find it, and the later one may be of a session that has  *)
(* long been replaced (_refresh and _cache_report).                        *)
THEOREM ReportStaysCorrect == ApiSpec => ReportStays
<1> DEFINE Kept == \A k \in Keys :
              faults.crash = 0 /\ runs[k].report # "none" /\ runs'[k] # NoRun
              => runs'[k].report = runs[k].report
<1>1. ReportsInv /\ [ApiNext]_apivars => [Kept]_runs
  <2> SUFFICES ASSUME ReportsInv, ApiNext, NEW k \in Keys, faults.crash = 0,
                      runs[k].report # "none", runs'[k] # NoRun, runs' # runs
               PROVE  runs'[k].report = runs[k].report
    BY DEF apivars
  <2>1. FlightInv' /\ runs = [l \in Keys |-> runs[l]] /\ \A l \in Keys : IsRun(runs[l])
    BY FlightStep, ShapesOf DEF ReportsInv
  <2>2. CASE \E c \in Callers : RecordRun(c)
    <3>1. PICK c \in Callers : RecordRun(c)
      BY <2>2
    <3>2. runs[call[c].key] = NoRun
      BY <3>1 DEF RecordRun, ReportsInv, FlightInv, OwnerInv
    <3>3. QED
      BY <2>1, <3>1, <3>2 DEF RecordRun, NoRun
  <2>3. CASE \E c \in Callers : Apply(c)
    <3>1. PICK c \in Callers : Apply(c)
      BY <2>3
    <3>2. CASE k # call[c].key
      BY <2>1, <3>1, <3>2 DEF Apply
    <3>3. CASE k = call[c].key
      <4>1. runs'[k] = [runs[k] EXCEPT !.status = PrivateStatus(call[c].seen[1]),
                                       !.snap = call[c].seen]
        BY <2>1, <3>1, <3>3 DEF Apply
      <4>2. PICK q, seen : runs'[k] = [runs[k] EXCEPT !.status = q, !.snap = seen]
        BY <4>1
      <4>3. runs'[k] = [sid |-> runs[k].sid, status |-> q, report |-> runs[k].report,
                        snap |-> seen]
        BY <2>1, <4>2 DEF IsRun
      <4>4. QED
        BY <4>3
    <3>4. QED
      BY <3>2, <3>3
  <2>4. CASE \E c \in Callers : Cache(c)
    BY <2>1, <2>4, CacheTells
  <2>5. CASE \E l \in Keys : Expire(l)
    BY <2>1, <2>5 DEF Expire
  <2>6. CASE Restarted
    BY <2>6 DEF Restarted
  <2>7. QED
    BY <2>2, <2>3, <2>4, <2>5, <2>6 DEF ApiNext, Session, Caller, Create, StartRun, Follow, Look,
       Compare, Stop
<1>2. QED
  BY <1>1, ReportsInvariant, PTL DEF ApiSpec, ReportStays

(* Whatever the calls do, each session they start keeps what a session of  *)
(* the runner promises of its answers, its requests and its report.        *)
THEOREM SessionsAreKept ==
  ApiSpec => [](AnswerIsStored /\ OneRequestAtATime /\ FinalReportIsExact)
<1>1. RunnerInv => AnswerIsStored /\ OneRequestAtATime /\ FinalReportIsExact
  BY RunnerPromises
<1>2. ReportsInv => RunnerInv
  BY DEF ReportsInv
<1>3. QED
  BY <1>1, <1>2, ReportsInvariant, PTL
=============================================================================
