------------------------------- MODULE Resolver ------------------------------
(***************************************************************************)
(* resolver::resolveIpv4, resolveIpv6 and resolve: findAndConvert and the  *)
(* three versions of gai().  The glibc one hands a request that lives in   *)
(* its own stack frame to the resolver threads of the library and waits    *)
(* for it with a timeout, while the request is started, finishes, or is    *)
(* still there when the wait ends.  It is not cancelled then: the library  *)
(* goes on with it, and writes its answer to the place it had on the       *)
(* stack, where by then the request of a later lookup may be.  The win32   *)
(* gai() is a GetAddrInfoExW() that blocks with a timeout, the other one a *)
(* getaddrinfo() that blocks.                                              *)
(***************************************************************************)
EXTENDS Integers, Sequences, SequencesExt, TLC

CONSTANTS
  Systems,    \* of "glibc", "win32" and "other": which gai() is built
  Threads,
  Callers,    \* per system, the threads that call the resolver (bound)
  Reqs,       \* places for requests (bound: how many may exist at once)
  Timeouts,   \* timeoutMs arguments, in ticks; 0 means none
  Lists,      \* address lists the library may answer, as the families in order
  GaiErrors,  \* EAI codes it may answer, or refuse a request with
  MaxLate,    \* bound: requests left behind in a place that is used again
  MaxSignals  \* bound: signals delivered to waiting threads

Families == {"V4", "V6"}

ASSUME ResolverAssumption ==
  /\ Systems \subseteq {"glibc", "win32", "other"}
  /\ Callers \in [Systems -> SUBSET Threads]
  /\ Timeouts \subseteq Nat /\ MaxLate \in Nat /\ MaxSignals \in Nat
  /\ Lists \subseteq Seq(Families)
  /\ GaiErrors \subseteq STRING \ {"0", "EAI_INPROGRESS"}
  /\ "no request" \notin Reqs

VARIABLES
  system,
  st,         \* library: "unused", "queued", "running" or "done"
  answer,     \* what was written into the request: gai_error() and ar_result
  late,       \* library: how many requests left behind it still has to answer, by the
              \* place they are in
  allocated,  \* places whose request holds an address list that was not freed yet
  abandoned,  \* history: places where an address list was lost
  frame,      \* whether the lookup that made the request still runs: gai(), with the
              \* request in its frame, or findAndConvert() with its list
  pc,         \* per thread: "idle", or the next call of gai / findAndConvert
  op,         \* the function called, or called last
  family,     \* of the lookup that is running
  timeout, elapsed,
  req,        \* the request of the lookup that is running
  answered,   \* history: what the library said in this call's lookups, with the family
  overwritten, \* history: an answer to an earlier call was written into this call's request
  ret,
  signals

library == <<system, st, answer, late, allocated, abandoned>>
args    == <<op, timeout>>
history == <<answered, overwritten>>
vars    == <<library, frame, pc, args, family, elapsed, req, history, ret, signals>>

NoReq == "no request"
None == "none"

ResolveOk(f)  == [ok |-> TRUE, family |-> f, err |-> "Success"]
ResolveErr(e) == [ok |-> FALSE, family |-> None, err |-> e]

\* makeError, of both sources (without EAI_ADDRFAMILY and EAI_NODATA on win32)
Codes ==
  [EAI_ADDRFAMILY |-> "AddrFamily",       EAI_AGAIN    |-> "TemporaryFailure",
   EAI_FAIL       |-> "PermanentFailure", EAI_NODATA   |-> "NoData",
   EAI_NONAME     |-> "UnknownHost",      EAI_SERVICE  |-> "ServiceNotFound",
   EAI_SOCKTYPE   |-> "SocketNotSupported", EAI_MEMORY |-> "OutOfMemory"]
Win32Codes == DOMAIN Codes \ {"EAI_ADDRFAMILY", "EAI_NODATA"}
makeError(code) ==
  IF code \in (IF system = "win32" THEN Win32Codes ELSE DOMAIN Codes) THEN Codes[code] ELSE "Other"

\* What the library makes of a request: gai_error() and ar_result.
Answer(code, list) == [error |-> code, list |-> list]
Answers == {Answer("0", l) : l \in Lists} \cup {Answer(e, <<>>) : e \in GaiErrors}
NoAnswer == Answer("EAI_INPROGRESS", <<>>)

Init ==
  /\ system \in Systems
  /\ st = [r \in Reqs |-> "unused"] /\ answer = [r \in Reqs |-> NoAnswer]
  /\ late = [r \in Reqs |-> 0] /\ allocated = {} /\ abandoned = {} /\ frame = [r \in Reqs |-> FALSE]
  /\ pc = [t \in Threads |-> "idle"] /\ op = [t \in Threads |-> None]
  /\ family = [t \in Threads |-> "V4"]
  /\ timeout = [t \in Threads |-> 0] /\ elapsed = [t \in Threads |-> 0]
  /\ req = [t \in Threads |-> NoReq]
  /\ answered = [t \in Threads |-> {}] /\ overwritten = [t \in Threads |-> FALSE]
  /\ ret = [t \in Threads |-> ResolveErr(None)]
  /\ signals = 0

-----------------------------------------------------------------------------
(* The resolver of the library (external), and the clock *)

Outstanding(r) == st[r] \in {"queued", "running"}

\* The request of a gai() that has not returned yet is in this place.
InGai(r) == \E t \in Threads : req[t] = r /\ pc[t] # "convert"

libStarts(r) ==
  /\ st[r] = "queued"
  /\ st' = [st EXCEPT ![r] = "running"]
  /\ UNCHANGED <<system, answer, late, allocated, abandoned, frame, pc, args, family, elapsed,
                 req, history, ret, signals>>

libFinishes(r, a) ==
  /\ st[r] = "running"
  /\ st' = [st EXCEPT ![r] = "done"]
  /\ answer' = [answer EXCEPT ![r] = a]
  /\ allocated' = IF a.error = "0" THEN allocated \cup {r} ELSE allocated
  /\ answered' = [t \in Threads |->
       IF req[t] = r THEN answered[t] \cup {<<family[t], a>>} ELSE answered[t]]
  /\ UNCHANGED <<system, late, abandoned, frame, pc, args, family, elapsed, req, overwritten,
                 ret, signals>>

\* A request that gai() left behind is answered, with a list for whatever host
\* it was for.  The answer lands in the request that has the place now, as if
\* that one was done (its own answer is late from then on); or nobody sees it.
libFinishesLate(r, a) ==
  /\ late[r] > 0
  /\ IF InGai(r)
       THEN /\ st' = [st EXCEPT ![r] = "done"]
            /\ answer' = [answer EXCEPT ![r] = a]
            /\ late' = IF Outstanding(r) THEN late ELSE [late EXCEPT ![r] = @ - 1]
            /\ allocated' = IF a.error = "0" THEN allocated \cup {r} ELSE allocated \ {r}
            /\ abandoned' = IF r \in allocated THEN abandoned \cup {r} ELSE abandoned
            /\ overwritten' = [t \in Threads |-> overwritten[t] \/ req[t] = r]
       ELSE /\ late' = [late EXCEPT ![r] = @ - 1]
            /\ abandoned' = IF a.error = "0" THEN abandoned \cup {r} ELSE abandoned
            /\ UNCHANGED <<st, answer, allocated, overwritten>>
  /\ UNCHANGED <<system, frame, pc, args, family, elapsed, req, answered, ret, signals>>

\* A wait the timeout applies to: gai_suspend() or GetAddrInfoExW().
IsTimed(t) == pc[t] = "waiting" \/ (pc[t] = "blocked" /\ system = "win32")

Tick ==
  /\ \E t \in Threads : IsTimed(t) /\ elapsed[t] < timeout[t]
  /\ elapsed' = [t \in Threads |->
       IF IsTimed(t) /\ elapsed[t] < timeout[t] THEN elapsed[t] + 1 ELSE elapsed[t]]
  /\ UNCHANGED <<library, frame, pc, args, family, req, history, ret, signals>>

-----------------------------------------------------------------------------
(* The public functions *)

\* The family that is looked up first; resolve() tries the other one after a
\* failure.
\* (mutant: resolve() starts with IPv6)
firstFamilyV6(f) == IF f = "resolveIpv4" THEN "V4" ELSE "V6"
firstFamily(f) == IF f = "resolveIpv6" THEN "V6" ELSE "V4"

resolveCall(t, f, timeoutMs) ==
  /\ pc[t] = "idle"
  /\ op' = [op EXCEPT ![t] = f]
  /\ timeout' = [timeout EXCEPT ![t] = timeoutMs]
  /\ family' = [family EXCEPT ![t] = firstFamily(f)]
  /\ answered' = [answered EXCEPT ![t] = {}]
  /\ overwritten' = [overwritten EXCEPT ![t] = FALSE]
  /\ ret' = [ret EXCEPT ![t] = ResolveErr(None)]
  /\ pc' = [pc EXCEPT ![t] = "submit"]
  /\ UNCHANGED <<library, frame, elapsed, req, signals>>

\* Whether a failed lookup is followed by one for the other family.
SecondTry(t, e) == op[t] = "resolve" /\ family[t] = "V4"

\* The frame of the running gai() is gone, with the request in it; the glibc
\* library goes on with a request it has not finished.
FrameEnds(t) ==
  /\ frame' = [r \in Reqs |-> frame[r] /\ r # req[t]]
  /\ late' = [r \in Reqs |->
       IF r = req[t] /\ Outstanding(r) /\ system = "glibc" THEN late[r] + 1 ELSE late[r]]
  /\ st' = [r \in Reqs |-> IF r = req[t] THEN "unused" ELSE st[r]]
  /\ answer' = [r \in Reqs |-> IF r = req[t] THEN NoAnswer ELSE answer[r]]
  /\ req' = [req EXCEPT ![t] = NoReq]
  /\ elapsed' = [elapsed EXCEPT ![t] = 0]

\* The lookup of t ends with error e.
LookupFails(t, e) ==
  /\ IF SecondTry(t, e)
       THEN /\ family' = [family EXCEPT ![t] = "V6"]
            /\ pc' = [pc EXCEPT ![t] = "submit"]
            /\ ret' = ret
       ELSE /\ pc' = [pc EXCEPT ![t] = "idle"]
            /\ ret' = [ret EXCEPT ![t] = ResolveErr(e)]
            /\ family' = family
  /\ FrameEnds(t)

\* findFirstAddress
\* (mutants: the first entry is taken whatever its family is; only the first
\* entry is looked at)
findFirstAddressAny(list, f) == list # <<>>
findFirstAddressHead(list, f) == list # <<>> /\ list[1] = f
findFirstAddress(list, f) == Contains(list, f)

Address(list, f) == IF Contains(list, f) THEN f ELSE list[1]

\* What findAndConvert does with the list, which it frees either way.
\* (mutant: the list is kept when it has no address of the family)
FreedIfFound(t) ==
  IF findFirstAddress(answer[req[t]].list, family[t]) THEN allocated \ {req[t]} ELSE allocated
Freed(t) == allocated \ {req[t]}

findAndConvert(t) ==
  /\ pc[t] = "convert"
  /\ allocated' = Freed(t)
  /\ IF findFirstAddress(answer[req[t]].list, family[t])
       THEN /\ ret' = [ret EXCEPT ![t] = ResolveOk(Address(answer[req[t]].list, family[t]))]
            /\ pc' = [pc EXCEPT ![t] = "idle"]
            /\ FrameEnds(t)
            /\ family' = family
       ELSE LookupFails(t, "NoData")
  /\ UNCHANGED <<system, abandoned, args, history, signals>>

-----------------------------------------------------------------------------
(* gai *)

\* getaddrinfo_a(GAI_NOWAIT, ...), or the start of a getaddrinfo() or
\* GetAddrInfoExW().  The frame of this gai() may lie where that of an earlier
\* one was, with a request the library still goes on with.
gaiSubmit(t, r) ==
  /\ pc[t] = "submit" /\ ~frame[r] /\ late[r] <= MaxLate
  /\ st' = [st EXCEPT ![r] = "queued"]
  /\ frame' = [frame EXCEPT ![r] = TRUE]
  /\ req' = [req EXCEPT ![t] = r]
  /\ pc' = [pc EXCEPT ![t] = IF system = "glibc" THEN "suspend" ELSE "blocked"]
  /\ UNCHANGED <<system, answer, late, allocated, abandoned, args, family, elapsed, history,
                 ret, signals>>

Told(t, a) ==
  /\ answered' = [answered EXCEPT ![t] = @ \cup {<<family[t], a>>}]
  /\ UNCHANGED overwritten

gaiSubmitFails(t, code) ==
  /\ pc[t] = "submit"
  /\ LookupFails(t, makeError(code))
  /\ Told(t, Answer(code, <<>>))
  /\ UNCHANGED <<system, allocated, abandoned, args, signals>>

\* The library is done: its error, or the list.
TakeAnswer(t) ==
  IF answer[req[t]].error = "0"
    THEN /\ pc' = [pc EXCEPT ![t] = "convert"]
         /\ UNCHANGED <<st, answer, late, frame, family, elapsed, req, ret>>
    ELSE LookupFails(t, makeError(answer[req[t]].error))

gaiBlocks(t) ==
  /\ pc[t] = "blocked" /\ st[req[t]] = "done"
  /\ TakeAnswer(t)
  /\ UNCHANGED <<system, allocated, abandoned, args, history, signals>>

\* GetAddrInfoExW() ends with its timeout, and forgets the request itself.
gaiTimesOut(t) ==
  /\ pc[t] = "blocked" /\ system = "win32"
  /\ timeout[t] > 0 /\ elapsed[t] >= timeout[t] /\ st[req[t]] # "done"
  /\ LookupFails(t, makeError("WSAETIMEDOUT"))
  /\ Told(t, Answer("WSAETIMEDOUT", <<>>))
  /\ UNCHANGED <<system, allocated, abandoned, args, signals>>

\* gai_suspend() of a request that is not done yet begins to wait.
gaiSuspend(t) ==
  /\ pc[t] = "suspend" /\ st[req[t]] # "done"
  /\ pc' = [pc EXCEPT ![t] = "waiting"]
  /\ UNCHANGED <<library, frame, args, family, elapsed, req, history, ret, signals>>

\* What gai_suspend() returns (external): nothing to wait for, a request that
\* is done, a signal, or the end of the timeout.
SuspendReturns(t, code) ==
  \/ pc[t] = "suspend" /\ st[req[t]] = "done" /\ code = "EAI_ALLDONE"
  \/ pc[t] = "waiting" /\ st[req[t]] = "done" /\ code = "0"
  \/ pc[t] = "waiting" /\ st[req[t]] # "done" /\ code = "EAI_INTR" /\ signals < MaxSignals
  \/ /\ pc[t] = "waiting" /\ st[req[t]] # "done" /\ code = "EAI_AGAIN"
     /\ timeout[t] > 0 /\ elapsed[t] >= timeout[t]

\* A list in a request whose answer gai() does not ask for is lost.
LeavesList(t, code) ==
  IF code # "0" /\ req[t] \in allocated
    THEN abandoned' = abandoned \cup {req[t]} /\ allocated' = allocated \ {req[t]}
    ELSE UNCHANGED <<abandoned, allocated>>

\* (mutant: the wait starts again when it ends)
gaiSuspendedRetries(t, code) ==
  /\ SuspendReturns(t, code)
  /\ CASE code = "0" -> TakeAnswer(t)
       [] code = "EAI_AGAIN" -> /\ pc' = [pc EXCEPT ![t] = "suspend"]
                                /\ elapsed' = [elapsed EXCEPT ![t] = 0]
                                /\ UNCHANGED <<st, answer, late, frame, family, req, ret>>
       [] OTHER -> LookupFails(t, makeError(code))
  /\ IF code = "0" THEN UNCHANGED history ELSE Told(t, Answer(code, <<>>))
  /\ signals' = IF code = "EAI_INTR" THEN signals + 1 ELSE signals
  /\ LeavesList(t, code)
  /\ UNCHANGED <<system, args>>

\* Only EAI_INPROGRESS is taken for a timeout.  (There the request would be
\* cancelled first, unless the library has started on it.)
gaiSuspended(t, code) ==
  /\ SuspendReturns(t, code)
  /\ CASE code = "0" -> TakeAnswer(t)
       [] code = "EAI_INPROGRESS" -> LookupFails(t, "TimedOut")
       [] OTHER -> LookupFails(t, makeError(code))
  /\ signals' = IF code = "EAI_INTR" THEN signals + 1 ELSE signals
  /\ IF code = "0" THEN UNCHANGED history ELSE Told(t, Answer(code, <<>>))
  /\ LeavesList(t, code)
  /\ UNCHANGED <<system, args>>

-----------------------------------------------------------------------------
Lookup(t) ==
  \/ \E r \in Reqs : gaiSubmit(t, r)
  \/ \E code \in GaiErrors : gaiSubmitFails(t, code)
  \/ gaiBlocks(t) \/ gaiTimesOut(t) \/ gaiSuspend(t)
  \/ \E code \in {"0", "EAI_ALLDONE", "EAI_AGAIN", "EAI_INTR"} : gaiSuspended(t, code)
  \/ findAndConvert(t)

Library ==
  \E r \in Reqs : libStarts(r) \/ \E a \in Answers : libFinishes(r, a) \/ libFinishesLate(r, a)

Next ==
  \/ \E t \in Callers[system] :
       \/ \E f \in {"resolveIpv4", "resolveIpv6", "resolve"}, ms \in Timeouts : resolveCall(t, f, ms)
       \/ Lookup(t)
  \/ Library
  \/ Tick

Spec == Init /\ [][Next]_vars

\* Calling threads are scheduled and time passes; the library need not answer.
FairSpec == Spec /\ (\A t \in Threads : WF_vars(Lookup(t))) /\ WF_vars(Tick)

-----------------------------------------------------------------------------
TypeOK ==
  /\ st \in [Reqs -> {"unused", "queued", "running", "done"}]
  /\ answer \in [Reqs -> Answers \cup {NoAnswer}]
  /\ late \in [Reqs -> Nat] /\ allocated \subseteq Reqs /\ abandoned \subseteq Reqs
  /\ pc \in [Threads -> {"idle", "submit", "suspend", "waiting", "blocked", "convert"}]
  /\ req \in [Threads -> Reqs \cup {NoReq}]
  /\ \A t \in Threads : pc[t] \in {"idle", "submit"} <=> req[t] = NoReq
  /\ \A t \in Threads : req[t] # NoReq => frame[req[t]]
  /\ signals \in 0..MaxSignals

Returned(t) == pc[t] = "idle" /\ op[t] # None

\* The library found an address of family f for the running or latest call.
Found(t, f) == \E x \in answered[t] : x[1] = f /\ Contains(x[2].list, f)

Wanted(t) == IF op[t] = "resolve" THEN Families
             ELSE {IF op[t] = "resolveIpv4" THEN "V4" ELSE "V6"}

\* An answer to another call was written into a request of this one: glibc's
\* gai() had left that call's request where this one's is.
Overwritten(t) == system = "glibc" /\ overwritten[t]

\* An address that is returned has a family the caller asked for, and is one the
\* library really gave for this call, although other calls reuse its request's
\* place.  (The calls that glibc's late answers hit are apart: they may return
\* the address of another host, but none of a wrong family.)
RightAddress == \A t \in Threads :
  (Returned(t) /\ ret[t].ok) =>
     ret[t].family \in Wanted(t) /\ (Found(t, ret[t].family) \/ Overwritten(t))

\* The lookup was done before gai_suspend() was called, which then says
\* EAI_ALLDONE, and gai() takes that for a failure.
Overlooked(t, f) == system = "glibc" /\ <<f, Answer("EAI_ALLDONE", <<>>)>> \in answered[t]

\* resolve() only returns an IPv6 address after an IPv4 lookup, and only when
\* that did not find one.  (What glibc overlooked or overwrote is apart.)
PrefersV4 == \A t \in Threads :
  (Returned(t) /\ op[t] = "resolve" /\ ret[t].ok /\ ret[t].family = "V6" /\ ~Overwritten(t)) =>
    /\ \E x \in answered[t] : x[1] = "V4"
    /\ Found(t, "V4") => Overlooked(t, "V4")

\* Resolver.hpp: resolve() "will only return an IPv6 address if the IPv4 lookup fails"
EveryPrefersV4 == \A t \in Threads :
  (Returned(t) /\ op[t] = "resolve" /\ ret[t].ok /\ ret[t].family = "V6") => ~Found(t, "V4")

\* A host that has an address of a family asked for is not reported as failing,
\* whichever lookup of the call found it and whatever the other one said, but
\* for what glibc overlooked or overwrote.
FoundIsReported == \A t \in Threads :
  (Returned(t) /\ ~ret[t].ok /\ ~Overwritten(t)) =>
    \A f \in Wanted(t) : Found(t, f) => Overlooked(t, f)

\* Every address list is freed: one that is still allocated belongs to a lookup
\* that has not returned yet, and only glibc's gai() ever loses one, by leaving
\* its request without having asked for the answer.
NoListLeak == (\A r \in allocated : frame[r]) /\ (abandoned # {} => system = "glibc")

\* Resolver.hpp: "If timeout is nonzero, on supported systems (Windows and Linux
\* with GLIBC)" every lookup ends, even when the library never answers.
ResolveReturns == \A t \in Threads :
  (pc[t] = "submit" /\ timeout[t] > 0 /\ system # "other") ~> (pc[t] = "idle")

=============================================================================
