--------------------------- MODULE ResolverProofs ---------------------------
(***************************************************************************)
(* Resolver proved for any threads, requests, timeouts, address lists and  *)
(* errors: what the three functions return is what the library said, but   *)
(* for the calls that glibc's late answers hit, and every address list is  *)
(* freed but for those the glibc gai() leaves.                             *)
(***************************************************************************)
EXTENDS Resolver, TLAPS

\* What a call has heard of family f is not an address, or it was overlooked.
Missed(heard, f) ==
  /\ \E x \in heard : x[1] = f
  /\ (\E x \in heard : x[1] = f /\ Contains(x[2].list, f)) =>
       system = "glibc" /\ <<f, Answer("EAI_ALLDONE", <<>>)>> \in heard

(***************************************************************************)
(* The inductive invariant.                                                *)
(***************************************************************************)
Typed ==
  /\ TypeOK
  /\ system \in Systems /\ frame \in [Reqs -> BOOLEAN]
  /\ op \in [Threads -> {None, "resolveIpv4", "resolveIpv6", "resolve"}]
  /\ family \in [Threads -> Families]
  /\ DOMAIN answered = Threads /\ DOMAIN ret = Threads /\ overwritten \in [Threads -> BOOLEAN]

\* A request belongs to one lookup.
Apart == \A t, u \in Threads : req[t] = req[u] /\ req[t] # NoReq => t = u

\* An address list is held by a request that is done, a place is used while the
\* lookup of its request runs, and only glibc's library answers late.
Holders ==
  /\ \A r \in allocated : st[r] = "done" /\ answer[r].error = "0"
  /\ \A r \in Reqs : st[r] # "unused" => frame[r]
  /\ \A r \in Reqs : late[r] > 0 => system = "glibc"

Placed(t) ==
  /\ pc[t] \in {"suspend", "waiting"} => system = "glibc"
  /\ pc[t] = "blocked" => system # "glibc"
  /\ pc[t] = "convert" => st[req[t]] = "done"

\* A call that runs has heard of its family what its request holds, and comes
\* to IPv6 in resolve() only when IPv4 was missed.
Hearing(t) ==
  /\ \A x \in answered[t] : x[1] = family[t] =>
       req[t] # NoReq /\ st[req[t]] = "done" /\ x = <<family[t], answer[req[t]]>>
  /\ req[t] # NoReq /\ st[req[t]] = "done" => <<family[t], answer[req[t]]>> \in answered[t]
  /\ family[t] = "V4" => \A x \in answered[t] : x[1] # "V6"
  /\ family[t] = "V6" /\ op[t] = "resolve" => Missed(answered[t], "V4")

\* Nothing is claimed of what a call heard whose request was overwritten.
Calling(t) == pc[t] # "idle" =>
  /\ ~ret[t].ok /\ op[t] # None /\ family[t] \in Wanted(t)
  /\ ~Overwritten(t) => Hearing(t)

HasHeard(t) ==
  IF ret[t].ok
    THEN /\ Found(t, ret[t].family)
         /\ op[t] = "resolve" /\ ret[t].family = "V6" => Missed(answered[t], "V4")
    ELSE \A f \in Wanted(t) : Missed(answered[t], f)

Ended(t) == Returned(t) =>
  /\ ret[t].ok => ret[t].family \in Wanted(t)
  /\ ~Overwritten(t) => HasHeard(t)

Inv ==
  /\ Typed /\ Apart /\ Holders /\ NoListLeak
  /\ \A t \in Threads : Placed(t) /\ Calling(t) /\ Ended(t)

-----------------------------------------------------------------------------
LEMMA NothingInEmpty == ASSUME NEW f PROVE ~Contains(<<>>, f)
BY DEF Contains

\* Hearing of another family changes nothing.
LEMMA MissedMore ==
  ASSUME UNCHANGED system, NEW heard, NEW more, NEW f, Missed(heard, f), heard \subseteq more,
         \A x \in more : x \in heard \/ x[1] # f
  PROVE  /\ \E x \in more : x[1] = f
         /\ (\E x \in more : x[1] = f /\ Contains(x[2].list, f)) =>
              system' = "glibc" /\ <<f, Answer("EAI_ALLDONE", <<>>)>> \in more
BY DEF Missed

\* An answer that is an error comes without a list.
LEMMA ErrorHasNoList ==
  ASSUME Typed, NEW r \in Reqs, answer[r].error # "0"
  PROVE  answer[r].list = <<>>
BY DEF Typed, TypeOK, Answers, Answer, NoAnswer

\* The library starts on a request, or time passes: nothing is said.
LEMMA LibStarts == ASSUME Inv, NEW r \in Reqs, libStarts(r) PROVE Inv'
<1>1. /\ st[r] = "queued" /\ st' = [st EXCEPT ![r] = "running"]
      /\ UNCHANGED <<system, answer, late, allocated, abandoned, frame, pc, op, family, req,
                     answered, overwritten, ret, signals>>
  BY DEF libStarts, args, history
<1>2. Typed' /\ Apart' /\ Holders' /\ NoListLeak'
  <2>1. Typed'
    BY <1>1 DEF Inv, Typed, TypeOK
  <2>2. \A q \in Reqs : /\ st'[q] = "done" <=> st[q] = "done"
                       /\ st'[q] # "unused" => st[q] # "unused"
    BY <1>1 DEF Inv, Typed, TypeOK
  <2>. QED BY <1>1, <2>1, <2>2 DEF Inv, Typed, TypeOK, Apart, Holders, NoListLeak
<1>3. ASSUME NEW t \in Threads PROVE (Placed(t) /\ Calling(t) /\ Ended(t))'
  <2>1. Placed(t) /\ Calling(t) /\ Ended(t) /\ Typed
    BY DEF Inv
  <2>2. \A q \in Reqs : st'[q] = "done" <=> st[q] = "done"
    BY <1>1, <2>1 DEF Typed, TypeOK
  <2>3. req[t] \in Reqs \cup {NoReq}
    BY <2>1 DEF Typed, TypeOK
  <2>4. Placed(t)' /\ Ended(t)'
    BY <1>1, <2>1, <2>2, <2>3
       DEF Typed, TypeOK, Placed, Ended, HasHeard, Overwritten, Returned, Found, Wanted, Missed
  <2>5. Calling(t)'
    BY <1>1, <2>1, <2>2, <2>3 DEF Calling, Hearing, Overwritten, Wanted, Missed
  <2>. QED BY <2>4, <2>5
<1>. QED BY <1>2, <1>3 DEF Inv

\* The library is done with a request: its lookup hears of it.
LEMMA LibFinishes == ASSUME Inv, NEW r \in Reqs, NEW a \in Answers, libFinishes(r, a) PROVE Inv'
<1>1. /\ Typed /\ Apart /\ Holders /\ NoListLeak /\ st[r] = "running" /\ frame[r] /\ NoReq \notin Reqs
  BY ResolverAssumption DEF Inv, libFinishes, NoReq, Holders
<1>2. /\ UNCHANGED <<system, late, abandoned, frame, pc, op, family, req, overwritten, ret, signals>>
      /\ st' = [st EXCEPT ![r] = "done"] /\ answer' = [answer EXCEPT ![r] = a]
      /\ allocated' = allocated \cup (IF a.error = "0" THEN {r} ELSE {})
      /\ answered' = [t \in Threads |->
           IF req[t] = r THEN answered[t] \cup {<<family[t], a>>} ELSE answered[t]]
  BY DEF libFinishes, args
<1>3. Typed' /\ Apart'
  BY <1>1, <1>2 DEF Typed, TypeOK, Apart
<1>4. r \notin allocated
  BY <1>1 DEF Holders
<1>5. Holders' /\ NoListLeak'
  BY <1>1, <1>2, <1>4 DEF Holders, NoListLeak, Typed, TypeOK
<1>6. ASSUME NEW t \in Threads PROVE (Placed(t) /\ Calling(t) /\ Ended(t))'
  <2>1. Placed(t) /\ Calling(t) /\ Ended(t) /\ (Overwritten(t)' <=> Overwritten(t))
    BY <1>2 DEF Inv, Overwritten
  <2>2. CASE req[t] # r
    <3>1. answered'[t] = answered[t]
      BY <1>2, <2>2
    <3>2. req[t] # NoReq => st'[req[t]] = st[req[t]] /\ answer'[req[t]] = answer[req[t]]
      BY <1>1, <1>2, <2>2 DEF Typed, TypeOK
    <3>3. pc[t] = "convert" => req[t] # NoReq
      BY <1>1 DEF Typed, TypeOK
    <3>. QED BY <1>2, <2>1, <3>1, <3>2, <3>3
             DEF Placed, Calling, Hearing, Ended, HasHeard, Returned, Found, Wanted, Missed
  <2>3. CASE req[t] = r
    <3>1. pc[t] # "idle" /\ pc[t] # "convert"
      BY <1>1, <2>1, <2>3 DEF Typed, TypeOK, Placed
    <3>2. answered'[t] = answered[t] \cup {<<family[t], a>>} /\ st'[r] = "done" /\ answer'[r] = a
      BY <1>1, <1>2, <2>3 DEF Typed, TypeOK
    <3>3. Placed(t)' /\ Ended(t)'
      BY <1>2, <2>1, <3>1 DEF Placed, Ended, Returned
    <3>4. ASSUME ~Overwritten(t) PROVE Hearing(t)'
      <4>1. Hearing(t)
        BY <2>1, <3>1, <3>4 DEF Calling
      <4>2. \A x \in answered[t] : x[1] # family[t]
        BY <1>1, <2>3, <4>1 DEF Hearing
      <4>3. Missed(answered[t], "V4") /\ family[t] # "V4" => Missed(answered[t], "V4")'
        BY <1>2, <3>2, MissedMore DEF Missed
      <4>. QED BY <1>1, <1>2, <2>3, <3>2, <4>1, <4>2, <4>3 DEF Hearing
    <3>. QED BY <1>2, <2>1, <3>1, <3>3, <3>4 DEF Calling, Wanted
  <2>. QED BY <2>2, <2>3
<1>. QED BY <1>3, <1>5, <1>6 DEF Inv

\* A step that leaves a thread and its request alone.
LEMMA ThreadKept ==
  ASSUME Inv, NEW u \in Threads, UNCHANGED system,
         pc'[u] = pc[u], op'[u] = op[u], family'[u] = family[u], req'[u] = req[u],
         ret'[u] = ret[u], answered'[u] = answered[u], overwritten'[u] = overwritten[u],
         req[u] # NoReq => st'[req[u]] = st[req[u]] /\ answer'[req[u]] = answer[req[u]]
  PROVE  (Placed(u) /\ Calling(u) /\ Ended(u))'
<1>1. Placed(u) /\ Calling(u) /\ Ended(u) /\ (pc[u] = "convert" => req[u] # NoReq)
  BY DEF Inv, Typed, TypeOK
<1>2. Overwritten(u)' <=> Overwritten(u)
  BY DEF Overwritten
<1>. QED BY <1>1, <1>2 DEF Placed, Calling, Hearing, Ended, HasHeard, Returned, Found, Wanted, Missed

\* The answer to a request that was left behind comes: into the request that
\* has the place now, whose call is overwritten; or it is lost.
LEMMA LibFinishesLate ==
  ASSUME Inv, NEW r \in Reqs, NEW a \in Answers, libFinishesLate(r, a) PROVE Inv'
<1>1. /\ Typed /\ Apart /\ Holders /\ NoListLeak /\ late[r] > 0 /\ NoReq \notin Reqs
      /\ system = "glibc" /\ late \in [Reqs -> Nat]
  BY ResolverAssumption DEF Inv, Typed, TypeOK, libFinishesLate, NoReq, Holders
<1>2. UNCHANGED <<system, frame, pc, op, family, req, answered, ret, signals>>
  BY DEF libFinishesLate, args
<1>3. CASE InGai(r)
  <2>1. /\ st' = [st EXCEPT ![r] = "done"] /\ answer' = [answer EXCEPT ![r] = a]
        /\ \/ late' = late
           \/ late' = [late EXCEPT ![r] = @ - 1]
        /\ allocated' = IF a.error = "0" THEN allocated \cup {r} ELSE allocated \ {r}
        /\ abandoned' \subseteq abandoned \cup {r}
        /\ overwritten' = [t \in Threads |-> overwritten[t] \/ req[t] = r]
    BY <1>3 DEF libFinishesLate
  <2>2. PICK v \in Threads : req[v] = r /\ pc[v] # "convert"
    BY <1>3 DEF InGai
  <2>3. frame[r]
    BY <1>1, <2>2 DEF Typed, TypeOK
  <2>4. late' \in [Reqs -> Nat]
    BY <1>1, <2>1
  <2>5. overwritten' \in [Threads -> BOOLEAN]
    BY <1>1, <2>1 DEF Typed
  <2>6. Typed' /\ Apart'
    BY <1>1, <1>2, <2>1, <2>4, <2>5 DEF Typed, TypeOK, Apart
  <2>7. Holders' /\ NoListLeak'
    BY <1>1, <1>2, <2>1, <2>3 DEF Holders, NoListLeak, Typed, TypeOK
  <2>8. (Placed(v) /\ Calling(v) /\ Ended(v))'
    <3>1. Placed(v) /\ Calling(v) /\ pc[v] # "idle" /\ overwritten'[v]
      BY <1>1, <2>1, <2>2 DEF Inv, Typed, TypeOK
    <3>2. Overwritten(v)'
      BY <1>1, <1>2, <3>1 DEF Overwritten
    <3>. QED BY <1>2, <2>2, <3>1, <3>2 DEF Placed, Calling, Ended, Returned, Wanted
  <2>9. ASSUME NEW t \in Threads \ {v} PROVE (Placed(t) /\ Calling(t) /\ Ended(t))'
    <3>1. req[t] # r
      BY <1>1, <2>2, <2>9 DEF Apart
    <3>2. overwritten'[t] = overwritten[t]
      BY <1>1, <2>1, <3>1 DEF Typed
    <3>3. req[t] # NoReq => st'[req[t]] = st[req[t]] /\ answer'[req[t]] = answer[req[t]]
      BY <1>1, <2>1, <3>1 DEF Typed, TypeOK
    <3>. QED BY <1>2, <3>2, <3>3, ThreadKept
  <2>. QED BY <2>6, <2>7, <2>8, <2>9 DEF Inv
<1>4. CASE ~InGai(r)
  <2>1. /\ late' = [late EXCEPT ![r] = @ - 1] /\ abandoned' \subseteq abandoned \cup {r}
        /\ UNCHANGED <<st, answer, allocated, overwritten>>
    BY <1>4 DEF libFinishesLate
  <2>2. late' \in [Reqs -> Nat]
    BY <1>1, <2>1
  <2>3. Typed' /\ Apart'
    BY <1>1, <1>2, <2>1, <2>2 DEF Typed, TypeOK, Apart
  <2>4. Holders' /\ NoListLeak'
    BY <1>1, <1>2, <2>1 DEF Holders, NoListLeak, Typed, TypeOK
  <2>5. ASSUME NEW t \in Threads PROVE (Placed(t) /\ Calling(t) /\ Ended(t))'
    BY <1>2, <2>1, ThreadKept
  <2>. QED BY <2>3, <2>4, <2>5 DEF Inv
<1>. QED BY <1>3, <1>4

\* Time passes.
LEMMA TimePasses ==
  ASSUME Inv, UNCHANGED <<library, frame, pc, op, family, req, history, ret, signals>>
  PROVE  Inv'
<1>1. Typed' /\ Apart' /\ Holders' /\ NoListLeak'
  BY DEF library, history, Inv, Typed, TypeOK, Apart, Holders, NoListLeak
<1>2. ASSUME NEW t \in Threads PROVE (Placed(t) /\ Calling(t) /\ Ended(t))'
  BY ThreadKept DEF library, history
<1>. QED BY <1>1, <1>2 DEF Inv

\* A call begins.
LEMMA CallBegins ==
  ASSUME Inv, NEW t \in Threads, NEW f \in {"resolveIpv4", "resolveIpv6", "resolve"},
         NEW ms, resolveCall(t, f, ms)
  PROVE  Inv'
<1>1. Typed /\ Apart /\ Holders /\ NoListLeak /\ pc[t] = "idle" /\ req[t] = NoReq
  BY DEF Inv, resolveCall, Typed, TypeOK
<1>2. /\ op' = [op EXCEPT ![t] = f] /\ family' = [family EXCEPT ![t] = firstFamily(f)]
      /\ answered' = [answered EXCEPT ![t] = {}] /\ ret' = [ret EXCEPT ![t] = ResolveErr(None)]
      /\ pc' = [pc EXCEPT ![t] = "submit"]
      /\ overwritten' = [overwritten EXCEPT ![t] = FALSE]
      /\ UNCHANGED <<system, st, answer, late, allocated, abandoned, frame, req, signals>>
  BY DEF resolveCall, library
<1>3. Typed'
  BY <1>1, <1>2 DEF Typed, TypeOK, firstFamily, Families
<1>4. Apart' /\ Holders' /\ NoListLeak'
  BY <1>1, <1>2 DEF Apart, Holders, NoListLeak
<1>5. (Placed(t) /\ Calling(t) /\ Ended(t))'
  BY <1>1, <1>2 DEF Typed, TypeOK, Placed, Calling, Hearing, Ended, Returned, Wanted, Families,
                    firstFamily, ResolveErr, None
<1>6. \A u \in Threads \ {t} : (Placed(u) /\ Calling(u) /\ Ended(u))'
  BY <1>1, <1>2, ThreadKept DEF Typed, TypeOK
<1>. QED BY <1>3, <1>4, <1>5, <1>6 DEF Inv

-----------------------------------------------------------------------------
\* A step leaves u and its request where they are.
Untouched(u) ==
  /\ req'[u] = req[u] /\ pc'[u] = pc[u]
  /\ req[u] # NoReq => st'[req[u]] = st[req[u]] /\ answer'[req[u]] = answer[req[u]]

\* The request of a lookup that ends is nobody else's.
LEMMA FrameEndsTyped ==
  ASSUME Inv, NEW t \in Threads, FrameEnds(t), pc'[t] \in {"idle", "submit"},
         \E p : pc' = [pc EXCEPT ![t] = p]
  PROVE  /\ frame' \in [Reqs -> BOOLEAN] /\ st' \in [Reqs -> {"unused", "queued", "running", "done"}]
         /\ answer' \in [Reqs -> Answers \cup {NoAnswer}]
         /\ late' \in [Reqs -> Nat] /\ \A r \in Reqs : late'[r] > 0 => late[r] > 0 \/ system = "glibc"
         /\ req' \in [Threads -> Reqs \cup {NoReq}] /\ req'[t] = NoReq
         /\ pc' \in [Threads -> {"idle", "submit", "suspend", "waiting", "blocked", "convert"}]
         /\ \A u \in Threads : pc'[u] \in {"idle", "submit"} <=> req'[u] = NoReq
         /\ \A u \in Threads : req'[u] # NoReq => frame'[req'[u]]
         /\ \A u \in Threads \ {t} : Untouched(u)
         /\ Apart'
<1>1. Typed /\ Apart /\ NoReq \notin Reqs
  BY ResolverAssumption DEF Inv, NoReq
<1>2. /\ frame' = [r \in Reqs |-> frame[r] /\ r # req[t]]
      /\ st' = [r \in Reqs |-> IF r = req[t] THEN "unused" ELSE st[r]]
      /\ answer' = [r \in Reqs |-> IF r = req[t] THEN NoAnswer ELSE answer[r]]
      /\ req' = [req EXCEPT ![t] = NoReq]
  BY DEF FrameEnds
<1>3. frame' \in [Reqs -> BOOLEAN] /\ st' \in [Reqs -> {"unused", "queued", "running", "done"}]
  BY <1>1, <1>2 DEF Typed, TypeOK
<1>4. answer' \in [Reqs -> Answers \cup {NoAnswer}]
  BY <1>1, <1>2 DEF Typed, TypeOK
<1>5. /\ req' \in [Threads -> Reqs \cup {NoReq}] /\ req'[t] = NoReq
      /\ \A u \in Threads \ {t} : req'[u] = req[u]
  BY <1>1, <1>2 DEF Typed, TypeOK
<1>6. /\ pc' \in [Threads -> {"idle", "submit", "suspend", "waiting", "blocked", "convert"}]
      /\ \A u \in Threads \ {t} : pc'[u] = pc[u]
  BY <1>1 DEF Typed, TypeOK
<1>7. \A u \in Threads : pc'[u] \in {"idle", "submit"} <=> req'[u] = NoReq
  BY <1>1, <1>5, <1>6 DEF Typed, TypeOK
<1>8. ASSUME NEW u \in Threads \ {t}, req[u] # NoReq
      PROVE  /\ req[u] \in Reqs /\ req[u] # req[t] /\ frame[req[u]]
             /\ frame'[req[u]] /\ st'[req[u]] = st[req[u]] /\ answer'[req[u]] = answer[req[u]]
  <2>1. req[u] \in Reqs /\ req[u] # req[t] /\ frame[req[u]]
    BY <1>1, <1>8 DEF Typed, TypeOK, Apart
  <2>. QED BY <1>2, <2>1
<1>9. \A u \in Threads : req'[u] # NoReq => frame'[req'[u]]
  BY <1>5, <1>8
<1>10. Apart'
  BY <1>1, <1>5 DEF Apart
<1>11. \A u \in Threads \ {t} : Untouched(u)
  BY <1>5, <1>6, <1>8 DEF Untouched
<1>12. late' \in [Reqs -> Nat] /\ \A r \in Reqs : late'[r] > 0 => late[r] > 0 \/ system = "glibc"
  <2>1. late \in [Reqs -> Nat]
    BY <1>1 DEF Typed, TypeOK
  <2>2. late' = [r \in Reqs |->
          IF r = req[t] /\ Outstanding(r) /\ system = "glibc" THEN late[r] + 1 ELSE late[r]]
    BY DEF FrameEnds
  <2>. QED BY <2>1, <2>2
<1>. QED BY <1>3, <1>4, <1>5, <1>6, <1>7, <1>9, <1>10, <1>11, <1>12

\* What a step does with the address lists, and what t hears in it.
ListsAfter(t) ==
  \/ allocated' = allocated \ {req[t]} /\ abandoned' = abandoned
  \/ allocated' = allocated /\ abandoned' = abandoned /\ req[t] \notin allocated
  \/ allocated' = allocated \ {req[t]} /\ abandoned' \subseteq Reqs /\ system = "glibc"

HearsMore(t, heard) ==
  /\ DOMAIN answered' = Threads /\ answered'[t] = heard
  /\ \A u \in Threads \ {t} : answered'[u] = answered[u]
  /\ overwritten' = overwritten
  /\ answered[t] \subseteq heard /\ \A x \in heard : x \in answered[t] \/ x[1] = family[t]

\* A lookup fails: its list is freed, was never made, or is left by glibc; and
\* it has heard that there is no address.
LEMMA FailureKept ==
  ASSUME Inv, NEW t \in Threads, NEW e, LookupFails(t, e), pc[t] # "idle",
         UNCHANGED <<system, op>>, signals' \in 0..MaxSignals,
         NEW heard, HearsMore(t, heard), ~Overwritten(t) => Missed(heard, family[t]),
         ListsAfter(t)
  PROVE  Inv'
<1>. USE DEF ListsAfter, HearsMore
<1>1. Typed /\ Apart /\ Holders /\ NoListLeak /\ Calling(t) /\ NoReq \notin Reqs
  BY ResolverAssumption DEF Inv, NoReq
<1>2. FrameEnds(t)
  BY DEF LookupFails
<1>3. \E p \in {"idle", "submit"} : pc' = [pc EXCEPT ![t] = p]
  BY DEF LookupFails
<1>4. pc'[t] \in {"idle", "submit"}
  BY <1>1, <1>3 DEF Typed, TypeOK
<1>5. /\ frame' = [r \in Reqs |-> frame[r] /\ r # req[t]]
      /\ st' = [r \in Reqs |-> IF r = req[t] THEN "unused" ELSE st[r]]
      /\ answer' = [r \in Reqs |-> IF r = req[t] THEN NoAnswer ELSE answer[r]]
  BY <1>2 DEF FrameEnds
<1>6. /\ abandoned' \subseteq Reqs /\ allocated' \subseteq allocated /\ req[t] \notin allocated'
      /\ abandoned' = abandoned \/ system' = "glibc"
  BY <1>1 DEF Typed, TypeOK
<1>7. family' \in [Threads -> Families] /\ DOMAIN ret' = Threads /\ DOMAIN answered' = Threads
  BY <1>1 DEF LookupFails, Typed, Families
<1>8. Typed'
  BY <1>1, <1>2, <1>3, <1>4, <1>6, <1>7, FrameEndsTyped DEF Typed, TypeOK
<1>9. Apart'
  BY <1>2, <1>3, <1>4, FrameEndsTyped
<1>10. Holders'
  <2>1. \A r \in Reqs : r # req[t] => st'[r] = st[r] /\ answer'[r] = answer[r] /\ (frame'[r] <=> frame[r])
    BY <1>1, <1>5 DEF Typed
  <2>2. \A r \in Reqs : r = req[t] => st'[r] = "unused"
    BY <1>5
  <2>3. \A r \in allocated' : st'[r] = "done" /\ answer'[r].error = "0"
    BY <1>1, <1>6, <2>1 DEF Holders, Typed, TypeOK
  <2>4. \A r \in Reqs : st'[r] # "unused" => frame'[r]
    BY <1>1, <2>1, <2>2 DEF Holders
  <2>5. \A r \in Reqs : late'[r] > 0 => system' = "glibc"
    BY <1>1, <1>2, <1>3, <1>4, FrameEndsTyped DEF Holders
  <2>. QED BY <2>3, <2>4, <2>5 DEF Holders
<1>11. NoListLeak'
  BY <1>1, <1>5, <1>6 DEF NoListLeak, Typed, TypeOK
<1>12. (Placed(t) /\ Calling(t) /\ Ended(t))'
  <2>1. heard = answered'[t] /\ (Overwritten(t)' <=> Overwritten(t))
    BY DEF Overwritten
  <2>2. req'[t] = NoReq
    BY <1>2, <1>3, <1>4, FrameEndsTyped
  <2>3. CASE op[t] = "resolve" /\ family[t] = "V4"
    <3>1. pc'[t] = "submit" /\ family'[t] = "V6" /\ ret' = ret /\ op'[t] = op[t]
      BY <1>1, <2>3 DEF LookupFails, SecondTry, Typed, TypeOK
    <3>2. ~ret'[t].ok /\ op'[t] = "resolve" /\ (family[t] \in Wanted(t))'
      BY <1>1, <2>3, <3>1 DEF Calling, Wanted, Families
    <3>3. ~Returned(t)' /\ Placed(t)'
      BY <3>1 DEF Returned, Placed
    <3>4. ASSUME ~Overwritten(t) PROVE Hearing(t)'
      <4>1. \A x \in heard : x[1] # "V6"
        BY <1>1, <2>3, <3>4 DEF Calling, Hearing
      <4>2. Missed(answered[t], "V4")'
        BY <2>1, <2>3, <3>4 DEF Missed
      <4>. QED BY <2>1, <2>2, <3>1, <4>1, <4>2 DEF Hearing
    <3>5. Calling(t)'
      BY <2>1, <3>1, <3>2, <3>4 DEF Calling, None
    <3>. QED BY <3>3, <3>5 DEF Ended
  <2>4. CASE ~(op[t] = "resolve" /\ family[t] = "V4")
    <3>1. pc'[t] = "idle" /\ ret'[t] = ResolveErr(e) /\ family' = family /\ op'[t] = op[t]
      BY <1>1, <2>4 DEF LookupFails, SecondTry, Typed, TypeOK
    <3>2. ~ret'[t].ok
      BY <3>1 DEF ResolveErr
    <3>3. ASSUME ~Overwritten(t), NEW f \in Wanted(t) PROVE Missed(answered[t], f)'
      <4>1. CASE f = family[t]
        BY <2>1, <3>3, <4>1 DEF Missed
      <4>2. CASE f # family[t]
        <5>1. op[t] = "resolve" /\ family[t] = "V6" /\ f = "V4"
          BY <1>1, <2>4, <4>2 DEF Calling, Wanted, Families, Typed
        <5>2. Missed(answered[t], f)
          BY <1>1, <3>3, <5>1 DEF Calling, Hearing
        <5>3. \A x \in heard : x \in answered[t] \/ x[1] # f
          BY <5>1
        <5>. QED BY <2>1, <5>2, <5>3, MissedMore DEF Missed
      <4>. QED BY <4>1, <4>2
    <3>4. Wanted(t)' = Wanted(t)
      BY <3>1 DEF Wanted
    <3>. QED BY <2>1, <3>1, <3>2, <3>3, <3>4 DEF Placed, Calling, Ended, HasHeard
  <2>. QED BY <2>3, <2>4
<1>13. ASSUME NEW u \in Threads \ {t} PROVE (Placed(u) /\ Calling(u) /\ Ended(u))'
  <2>1. Untouched(u)
    BY <1>2, <1>3, <1>4, FrameEndsTyped
  <2>2. family'[u] = family[u] /\ ret'[u] = ret[u] /\ answered'[u] = answered[u] /\ op'[u] = op[u]
    BY <1>1 DEF LookupFails, Typed
  <2>. QED BY <2>1, <2>2, ThreadKept DEF Untouched
<1>. QED BY <1>8, <1>9, <1>10, <1>11, <1>12, <1>13 DEF Inv

-----------------------------------------------------------------------------
(* The steps in which a lookup may fail. *)

\* What a failing lookup is told now has no address.
LEMMA ToldIsMissed ==
  ASSUME Inv, NEW t \in Threads, NEW code, pc[t] # "idle", ~Overwritten(t),
         \/ req[t] = NoReq \/ st[req[t]] # "done"
         \/ code = "EAI_ALLDONE" /\ system = "glibc"
  PROVE  Missed(answered[t] \cup {<<family[t], Answer(code, <<>>)>>}, family[t])
<1> DEFINE pair == <<family[t], Answer(code, <<>>)>>
           heard == answered[t] \cup {pair}
<1>1. pair[1] = family[t] /\ ~Contains(pair[2].list, family[t])
  BY NothingInEmpty DEF Answer
<1>2. CASE req[t] = NoReq \/ st[req[t]] # "done"
  <2>1. \A x \in answered[t] : x[1] # family[t]
    BY <1>2 DEF Inv, Calling, Hearing
  <2> HIDE DEF pair
  <2>2. pair \in heard /\ \A x \in heard : x[1] = family[t] => x = pair
    BY <2>1
  <2>. QED BY <1>1, <2>2 DEF Missed, pair
<1>3. CASE code = "EAI_ALLDONE" /\ system = "glibc"
  <2>1. pair \in heard /\ (code = "EAI_ALLDONE" => <<family[t], Answer("EAI_ALLDONE", <<>>)>> \in heard)
    OBVIOUS
  <2>. QED BY <1>1, <1>3, <2>1 DEF Missed
<1>. QED BY <1>2, <1>3

LEMMA SubmitFails ==
  ASSUME Inv, NEW t \in Threads, NEW code, gaiSubmitFails(t, code)
  PROVE  Inv'
<1>1. Typed /\ req[t] = NoReq /\ pc[t] # "idle" /\ NoReq \notin Reqs
  BY ResolverAssumption DEF Inv, Typed, TypeOK, gaiSubmitFails, NoReq
<1>2. /\ LookupFails(t, makeError(code)) /\ UNCHANGED <<system, allocated, abandoned, op, signals>>
      /\ answered' = [answered EXCEPT ![t] = answered[t] \cup {<<family[t], Answer(code, <<>>)>>}]
      /\ overwritten' = overwritten
  BY DEF gaiSubmitFails, Told, args
<1>3. signals' \in 0..MaxSignals /\ req[t] \notin allocated
  BY <1>1, <1>2 DEF Typed, TypeOK
<1>4. PICK heard : heard = answered[t] \cup {<<family[t], Answer(code, <<>>)>>}
  OBVIOUS
<1>5. ~Overwritten(t) => Missed(heard, family[t])
  BY <1>1, <1>4, ToldIsMissed
<1>6. HearsMore(t, heard) /\ ListsAfter(t)
  BY <1>1, <1>2, <1>3, <1>4 DEF Typed, HearsMore, ListsAfter
<1>. QED BY <1>1, <1>2, <1>3, <1>5, <1>6, FailureKept

LEMMA TimesOut ==
  ASSUME Inv, NEW t \in Threads, gaiTimesOut(t)
  PROVE  Inv'
<1>1. /\ Typed /\ Holders /\ req[t] \in Reqs /\ pc[t] # "idle" /\ frame[req[t]]
      /\ st[req[t]] # "done"
  BY DEF Inv, Typed, TypeOK, gaiTimesOut
<1>2. /\ LookupFails(t, makeError("WSAETIMEDOUT")) /\ UNCHANGED <<system, allocated, abandoned, op, signals>>
      /\ answered' = [answered EXCEPT ![t] = answered[t] \cup {<<family[t], Answer("WSAETIMEDOUT", <<>>)>>}]
      /\ overwritten' = overwritten
  BY DEF gaiTimesOut, Told, args
<1>3. signals' \in 0..MaxSignals /\ req[t] \notin allocated
  BY <1>1, <1>2 DEF Typed, TypeOK, Holders
<1>4. PICK heard : heard = answered[t] \cup {<<family[t], Answer("WSAETIMEDOUT", <<>>)>>}
  OBVIOUS
<1>5. ~Overwritten(t) => Missed(heard, family[t])
  BY <1>1, <1>4, ToldIsMissed
<1>6. HearsMore(t, heard) /\ ListsAfter(t)
  BY <1>1, <1>2, <1>3, <1>4 DEF Typed, HearsMore, ListsAfter
<1>. QED BY <1>1, <1>2, <1>3, <1>5, <1>6, FailureKept

\* The library is done with the request of a lookup that waits for it.
LEMMA AnswerTaken ==
  ASSUME Inv, NEW t \in Threads, TakeAnswer(t), pc[t] \in {"suspend", "waiting", "blocked"},
         st[req[t]] = "done", UNCHANGED <<system, allocated, abandoned, op, history, signals>>
  PROVE  Inv'
<1>0. /\ Typed /\ Apart /\ Holders /\ NoListLeak /\ Calling(t) /\ NoReq \notin Reqs
      /\ pc[t] # "idle" /\ pc[t] # "submit"
  BY ResolverAssumption DEF Inv, NoReq
<1>1. /\ Typed /\ Apart /\ Holders /\ NoListLeak /\ Calling(t) /\ NoReq \notin Reqs
      /\ req[t] \in Reqs /\ frame[req[t]] /\ pc[t] # "idle" /\ signals \in 0..MaxSignals
  BY <1>0 DEF Typed, TypeOK
<1>2. CASE answer[req[t]].error = "0"
  <2>1. /\ pc' = [pc EXCEPT ![t] = "convert"]
        /\ UNCHANGED <<st, answer, late, frame, family, elapsed, req, ret, answered, overwritten>>
    BY <1>2 DEF TakeAnswer, history
  <2>2. Typed' /\ Apart' /\ Holders' /\ NoListLeak'
    BY <1>1, <2>1 DEF Typed, TypeOK, Apart, Holders, NoListLeak
  <2>3. \A u \in Threads \ {t} : (Placed(u) /\ Calling(u) /\ Ended(u))'
    BY <1>1, <2>1, ThreadKept DEF Typed, TypeOK
  <2>4. pc'[t] = "convert"
    BY <1>1, <2>1 DEF Typed, TypeOK
  <2>5. Calling(t)'
    BY <1>1, <2>1, <2>4 DEF Calling, Hearing, Overwritten, Wanted, Missed
  <2>. QED BY <2>1, <2>2, <2>3, <2>4, <2>5 DEF Inv, Placed, Ended, Returned
<1>3. CASE answer[req[t]].error # "0"
  <2>1. LookupFails(t, makeError(answer[req[t]].error))
    BY <1>3 DEF TakeAnswer
  <2>2. answer[req[t]].list = <<>>
    BY <1>1, <1>3, ErrorHasNoList
  <2>3. ~Overwritten(t) => Missed(answered[t], family[t])
    BY <1>1, <2>2, NothingInEmpty DEF Calling, Hearing, Missed
  <2>4. req[t] \notin allocated
    BY <1>1, <1>3 DEF Holders
  <2>5. HearsMore(t, answered[t]) /\ ListsAfter(t)
    BY <1>1, <2>4 DEF Typed, HearsMore, ListsAfter, history
  <2>6. PICK e, heard : LookupFails(t, e) /\ heard = answered[t]
    BY <2>1
  <2>. QED BY <1>1, <2>3, <2>4, <2>5, <2>6, FailureKept
<1>. QED BY <1>2, <1>3

LEMMA Suspended ==
  ASSUME Inv, NEW t \in Threads, NEW code \in {"0", "EAI_ALLDONE", "EAI_AGAIN", "EAI_INTR"},
         gaiSuspended(t, code)
  PROVE  Inv'
<1>1. /\ Typed /\ Holders /\ pc[t] \in {"suspend", "waiting"} /\ system = "glibc" /\ req[t] \in Reqs
      /\ signals \in 0..MaxSignals /\ MaxSignals \in Nat
  BY ResolverAssumption DEF Inv, Typed, TypeOK, Placed, gaiSuspended, SuspendReturns
<1>2. CASE code = "0"
  <2>1. TakeAnswer(t) /\ st[req[t]] = "done" /\ UNCHANGED <<system, allocated, abandoned, op, history, signals>>
    BY <1>2 DEF gaiSuspended, SuspendReturns, LeavesList, args
  <2>. QED BY <1>1, <2>1, AnswerTaken
<1>3. CASE code # "0"
  <2>1. \E e : LookupFails(t, e)
    BY <1>3 DEF gaiSuspended
  <2>2. /\ UNCHANGED <<system, op, overwritten>>
        /\ answered' = [answered EXCEPT ![t] = answered[t] \cup {<<family[t], Answer(code, <<>>)>>}]
        /\ allocated' = allocated \ {req[t]} /\ abandoned' \subseteq abandoned \cup {req[t]}
    BY <1>3 DEF gaiSuspended, Told, LeavesList, args
  <2>3. code = "EAI_ALLDONE" \/ st[req[t]] # "done"
    BY <1>3 DEF gaiSuspended, SuspendReturns
  <2>4. signals' \in 0..MaxSignals
    BY <1>1 DEF gaiSuspended, SuspendReturns
  <2>5. PICK e, heard : LookupFails(t, e) /\ heard = answered[t] \cup {<<family[t], Answer(code, <<>>)>>}
    BY <2>1
  <2>6. ~Overwritten(t) => Missed(heard, family[t])
    BY <1>1, <2>3, <2>5, ToldIsMissed
  <2>7. HearsMore(t, heard) /\ ListsAfter(t)
    BY <1>1, <2>2, <2>5 DEF Typed, TypeOK, HearsMore, ListsAfter
  <2>. QED BY <1>1, <2>2, <2>4, <2>5, <2>6, <2>7, FailureKept
<1>. QED BY <1>2, <1>3

LEMMA Blocks == ASSUME Inv, NEW t \in Threads, gaiBlocks(t) PROVE Inv'
<1>1. TakeAnswer(t) /\ pc[t] = "blocked" /\ st[req[t]] = "done"
  BY DEF gaiBlocks
<1>2. UNCHANGED <<system, allocated, abandoned, op, history, signals>>
  BY DEF gaiBlocks, args
<1>. QED BY <1>1, <1>2, AnswerTaken

\* The list is searched and freed.
LEMMA Converts == ASSUME Inv, NEW t \in Threads, findAndConvert(t) PROVE Inv'
<1>1. /\ Typed /\ Apart /\ Holders /\ NoListLeak /\ Calling(t) /\ NoReq \notin Reqs
      /\ pc[t] = "convert" /\ st[req[t]] = "done"
  BY ResolverAssumption DEF Inv, NoReq, Placed, findAndConvert
<1>2. /\ req[t] \in Reqs /\ frame[req[t]] /\ signals \in 0..MaxSignals
      /\ ~Overwritten(t) => <<family[t], answer[req[t]]>> \in answered[t]
      /\ abandoned \subseteq Reqs
  BY <1>1 DEF Typed, TypeOK, Calling, Hearing
<1>3. /\ allocated' = allocated \ {req[t]}
      /\ UNCHANGED <<system, abandoned, op, answered, overwritten, signals>>
  BY DEF findAndConvert, Freed, args, history
<1>4. CASE Contains(answer[req[t]].list, family[t])
  <2>1. /\ ret' = [ret EXCEPT ![t] = ResolveOk(family[t])] /\ pc' = [pc EXCEPT ![t] = "idle"]
        /\ FrameEnds(t) /\ family' = family
    BY <1>4 DEF findAndConvert, findFirstAddress, Address
  <2>2. \E p : pc' = [pc EXCEPT ![t] = p]
    BY <2>1
  <2>3. pc'[t] = "idle" /\ ret'[t] = ResolveOk(family[t])
    BY <1>1, <2>1 DEF Typed, TypeOK
  <2>5. Typed' /\ Apart'
    <3>1. allocated' \subseteq Reqs /\ abandoned' \subseteq Reqs /\ signals' \in 0..MaxSignals
      BY <1>1, <1>2, <1>3 DEF Typed, TypeOK
    <3>2. DOMAIN ret' = Threads /\ DOMAIN answered' = Threads /\ overwritten' \in [Threads -> BOOLEAN]
      BY <1>1, <1>3, <2>1 DEF Typed
    <3>3. pc'[t] \in {"idle", "submit"}
      BY <2>3
    <3>. QED BY <1>1, <1>3, <2>1, <2>2, <3>1, <3>2, <3>3, FrameEndsTyped DEF Typed, TypeOK
  <2>6. /\ frame' = [r \in Reqs |-> frame[r] /\ r # req[t]]
        /\ st' = [r \in Reqs |-> IF r = req[t] THEN "unused" ELSE st[r]]
        /\ answer' = [r \in Reqs |-> IF r = req[t] THEN NoAnswer ELSE answer[r]]
    BY <2>1 DEF FrameEnds
  <2>7. Holders'
    <3>1. \A r \in Reqs : r # req[t] => st'[r] = st[r] /\ answer'[r] = answer[r] /\ (frame'[r] <=> frame[r])
      BY <1>1, <2>6 DEF Typed
    <3>2. st'[req[t]] = "unused"
      BY <1>1, <1>2, <2>6
    <3>3. \A r \in Reqs : late'[r] > 0 => system' = "glibc"
      BY <1>1, <1>3, <2>1, <2>2, <2>3, FrameEndsTyped DEF Holders
    <3>. QED BY <1>1, <1>2, <1>3, <3>1, <3>2, <3>3 DEF Holders, Typed, TypeOK
  <2>8. NoListLeak'
    BY <1>1, <1>3, <2>6 DEF NoListLeak, Typed, TypeOK
  <2>9. (Placed(t) /\ Calling(t) /\ Ended(t))'
    <3>1. ret'[t].ok /\ ret'[t].family = family[t] /\ Wanted(t)' = Wanted(t)
      BY <1>3, <2>3 DEF ResolveOk, Wanted
    <3>2. Placed(t)' /\ Calling(t)' /\ (Overwritten(t)' <=> Overwritten(t)) /\ (ret[t].family \in Wanted(t))'
      BY <1>1, <1>3, <2>3, <3>1 DEF Placed, Calling, Overwritten
    <3>3. ASSUME ~Overwritten(t) PROVE HasHeard(t)'
      <4>1. Found(t, family[t])'
        BY <1>2, <1>3, <1>4, <2>1, <3>3 DEF Found
      <4>2. op[t] = "resolve" /\ family[t] = "V6" => Missed(answered[t], "V4")'
        BY <1>1, <1>3, <3>3 DEF Calling, Hearing, Missed
      <4>3. Found(t, ret[t].family)'
        BY <2>1, <3>1, <4>1 DEF Found
      <4>. QED BY <1>3, <3>1, <4>2, <4>3 DEF HasHeard
    <3>. QED BY <3>2, <3>3 DEF Ended
  <2>10. ASSUME NEW u \in Threads \ {t} PROVE (Placed(u) /\ Calling(u) /\ Ended(u))'
    <3>1. Untouched(u)
      BY <2>1, <2>2, <2>3, FrameEndsTyped
    <3>2. ret'[u] = ret[u]
      BY <1>1, <2>1 DEF Typed
    <3>. QED BY <1>3, <2>1, <3>1, <3>2, ThreadKept DEF Untouched
  <2>. QED BY <2>5, <2>7, <2>8, <2>9, <2>10 DEF Inv
<1>5. CASE ~Contains(answer[req[t]].list, family[t])
  <2>1. LookupFails(t, "NoData")
    BY <1>5 DEF findAndConvert, findFirstAddress
  <2>2. ~Overwritten(t) => Missed(answered[t], family[t])
    BY <1>1, <1>2, <1>5 DEF Calling, Hearing, Missed
  <2>3. HearsMore(t, answered[t]) /\ ListsAfter(t)
    BY <1>1, <1>3 DEF Typed, HearsMore, ListsAfter
  <2>4. PICK e, heard : LookupFails(t, e) /\ heard = answered[t]
    BY <2>1
  <2>. QED BY <1>1, <1>2, <1>3, <2>2, <2>3, <2>4, FailureKept
<1>. QED BY <1>4, <1>5

\* A lookup begins, with a request nobody else has.
LEMMA Submits == ASSUME Inv, NEW t \in Threads, NEW r \in Reqs, gaiSubmit(t, r) PROVE Inv'
<1>1. /\ Typed /\ Apart /\ Holders /\ NoListLeak /\ Calling(t) /\ NoReq \notin Reqs
      /\ pc[t] = "submit" /\ ~frame[r] /\ r \notin allocated
  BY ResolverAssumption DEF Inv, NoReq, NoListLeak, gaiSubmit
<1>2. /\ st' = [st EXCEPT ![r] = "queued"] /\ frame' = [frame EXCEPT ![r] = TRUE]
      /\ req' = [req EXCEPT ![t] = r]
      /\ pc' = [pc EXCEPT ![t] = IF system = "glibc" THEN "suspend" ELSE "blocked"]
      /\ UNCHANGED <<system, answer, late, allocated, abandoned, op, family, answered, overwritten,
                     ret, signals>>
  BY DEF gaiSubmit, args, history
<1>3. req[t] = NoReq /\ \A u \in Threads : req[u] # r
  BY <1>1 DEF Typed, TypeOK
<1>4. Typed'
  BY <1>1, <1>2, <1>3 DEF Typed, TypeOK
<1>5. Apart'
  BY <1>1, <1>2, <1>3 DEF Apart, Typed, TypeOK
<1>6. Holders' /\ NoListLeak'
  BY <1>1, <1>2 DEF Holders, NoListLeak, Typed, TypeOK
<1>7. (Placed(t) /\ Calling(t) /\ Ended(t))'
  <2>1. /\ pc'[t] = IF system = "glibc" THEN "suspend" ELSE "blocked"
        /\ req'[t] = r /\ st'[r] = "queued"
    BY <1>1, <1>2 DEF Typed, TypeOK
  <2>2. ASSUME ~Overwritten(t) PROVE Hearing(t)'
    <3>1. Hearing(t)
      BY <1>1, <2>2 DEF Calling
    <3>2. \A x \in answered[t] : x[1] # family[t]
      BY <1>3, <3>1 DEF Hearing
    <3>3. op[t] = "resolve" /\ family[t] = "V6" => Missed(answered[t], "V4")'
      BY <1>2, <3>1 DEF Hearing, Missed
    <3>. QED BY <1>1, <1>2, <2>1, <3>1, <3>2, <3>3 DEF Hearing
  <2>3. Overwritten(t)' <=> Overwritten(t)
    BY <1>2 DEF Overwritten
  <2>. QED BY <1>1, <1>2, <2>1, <2>2, <2>3 DEF Placed, Calling, Ended, Returned, Wanted
<1>8. ASSUME NEW u \in Threads \ {t} PROVE (Placed(u) /\ Calling(u) /\ Ended(u))'
  <2>1. req[u] # NoReq => req[u] \in Reqs /\ req[u] # r
    BY <1>1, <1>3 DEF Typed, TypeOK
  <2>2. Untouched(u)
    BY <1>1, <1>2, <2>1 DEF Typed, TypeOK, Untouched
  <2>. QED BY <1>2, <2>2, ThreadKept DEF Untouched
<1>. QED BY <1>4, <1>5, <1>6, <1>7, <1>8 DEF Inv

LEMMA Suspends == ASSUME Inv, NEW t \in Threads, gaiSuspend(t) PROVE Inv'
<1>1. Typed /\ pc[t] = "suspend" /\ Calling(t) /\ Placed(t)
  BY DEF Inv, gaiSuspend
<1>2. /\ pc' = [pc EXCEPT ![t] = "waiting"]
      /\ UNCHANGED <<system, st, answer, late, allocated, abandoned, frame, op, family, req,
                     answered, overwritten, ret, signals>>
  BY DEF gaiSuspend, args, library, history
<1>3. Typed' /\ Apart' /\ Holders' /\ NoListLeak'
  BY <1>1, <1>2 DEF Inv, Typed, TypeOK, Apart, Holders, NoListLeak
<1>4. (Placed(t) /\ Calling(t) /\ Ended(t))'
  <2>1. pc'[t] = "waiting"
    BY <1>1, <1>2 DEF Typed, TypeOK
  <2>. QED BY <1>1, <1>2, <2>1
           DEF Placed, Calling, Hearing, Overwritten, Ended, Returned, Wanted, Missed
<1>5. \A u \in Threads \ {t} : (Placed(u) /\ Calling(u) /\ Ended(u))'
  BY <1>1, <1>2, ThreadKept DEF Typed, TypeOK
<1>. QED BY <1>3, <1>4, <1>5 DEF Inv

-----------------------------------------------------------------------------
(***************************************************************************)
(* The theorems.                                                           *)
(***************************************************************************)

\* The inductive invariant holds.
THEOREM ResolverInvariance == Spec => []Inv
<1>1. Init => Inv
  <2> SUFFICES ASSUME Init PROVE Inv
    OBVIOUS
  <2>1. Typed
    <3>1. frame \in [Reqs -> BOOLEAN]
      BY Zenon DEF Init
    <3>2. TypeOK
      <4>1. /\ st \in [Reqs -> {"unused", "queued", "running", "done"}]
            /\ pc \in [Threads -> {"idle", "submit", "suspend", "waiting", "blocked", "convert"}]
            /\ req \in [Threads -> Reqs \cup {NoReq}] /\ allocated = {} /\ abandoned = {}
        BY DEF Init
      <4>2. answer \in [Reqs -> Answers \cup {NoAnswer}]
        BY DEF Init
      <4>5. late \in [Reqs -> Nat]
        BY DEF Init
      <4>3. \A t \in Threads : pc[t] = "idle" /\ req[t] = NoReq
        BY DEF Init
      <4>4. signals \in 0..MaxSignals
        <5>1. MaxSignals \in Nat
          BY ResolverAssumption
        <5>2. signals = 0
          BY DEF Init
        <5>. QED BY <5>1, <5>2
      <4>. QED BY <4>1, <4>2, <4>3, <4>4, <4>5 DEF TypeOK
    <3>3. op \in [Threads -> {None, "resolveIpv4", "resolveIpv6", "resolve"}]
      BY DEF Init
    <3>4. overwritten \in [Threads -> BOOLEAN]
      BY Zenon DEF Init
    <3>. QED BY <3>1, <3>2, <3>3, <3>4 DEF Init, Typed, Families
  <2>2. Apart /\ Holders /\ NoListLeak
    BY DEF Init, Apart, Holders, NoListLeak
  <2>. QED BY <2>1, <2>2 DEF Init, Inv, Placed, Calling, Ended, Returned
<1>2. Inv /\ [Next]_vars => Inv'
  <2> SUFFICES ASSUME Inv, [Next]_vars PROVE Inv'
    OBVIOUS
  <2>1. ASSUME NEW t \in Callers[system], NEW f \in {"resolveIpv4", "resolveIpv6", "resolve"},
               NEW ms \in Timeouts, resolveCall(t, f, ms)
        PROVE  Inv'
    BY <2>1, CallBegins, ResolverAssumption DEF Inv, Typed
  <2>2. ASSUME NEW t \in Callers[system], Lookup(t) PROVE Inv'
    <3>1. t \in Threads
      BY ResolverAssumption DEF Inv, Typed
    <3>. QED BY <2>2, <3>1, Submits, SubmitFails, Blocks, TimesOut, Suspends, Suspended, Converts DEF Lookup
  <2>3. CASE Library
    BY <2>3, LibStarts, LibFinishes, LibFinishesLate DEF Library
  <2>4. CASE Tick
    BY <2>4, TimePasses DEF Tick, args
  <2>5. CASE UNCHANGED vars
    BY <2>5, TimePasses DEF vars, args
  <2>. QED BY <2>1, <2>2, <2>3, <2>4, <2>5 DEF Next
<1>. QED BY <1>1, <1>2, PTL DEF Spec

\* resolve() returns an IPv6 address only after IPv4 was asked and missed.
THEOREM Ipv4IsPreferred == Spec => []PrefersV4
<1>1. Inv => PrefersV4
  BY DEF Inv, Ended, HasHeard, PrefersV4, Missed, Found, Overlooked
<1>. QED BY <1>1, ResolverInvariance, PTL

\* No address the library found is reported as a failure.
THEOREM TheFoundIsReported == Spec => []FoundIsReported
<1>1. Inv => FoundIsReported
  BY DEF Inv, Ended, HasHeard, FoundIsReported, Missed, Found, Overlooked
<1>. QED BY <1>1, ResolverInvariance, PTL

\* Every address list is freed, but for those glibc's gai() leaves behind.
THEOREM ListsAreFreed == Spec => []NoListLeak
<1>1. Inv => NoListLeak
  BY DEF Inv
<1>. QED BY <1>1, ResolverInvariance, PTL

\* No call fails that found an address.
FoundIsReturned == \A t \in Threads :
  (Returned(t) /\ ~ret[t].ok) => \A f \in Wanted(t) : ~Found(t, f)
\* No list stays allocated behind the lookup it was for.
EveryListIsHeld == \A r \in allocated : frame[r]

\* What glibc's gai_suspend() costs is all there is: on the other systems resolve()
\* returns IPv6 only when IPv4 was missed, an address that was found is returned,
\* and every list is held by its lookup.
THEOREM NothingIsOverlooked ==
  ASSUME "glibc" \notin Systems
  PROVE  Spec => [](EveryPrefersV4 /\ FoundIsReturned /\ EveryListIsHeld)
<1>1. ASSUME Inv PROVE EveryPrefersV4 /\ FoundIsReturned /\ EveryListIsHeld
  <2>1. system # "glibc"
    BY <1>1 DEF Inv, Typed
  <2>2. PrefersV4 /\ FoundIsReported
    BY <1>1 DEF Inv, Ended, HasHeard, PrefersV4, FoundIsReported, Missed, Found, Overlooked
  <2>3. EveryPrefersV4
    BY <2>1, <2>2 DEF PrefersV4, EveryPrefersV4, Overlooked, Overwritten
  <2>4. FoundIsReturned
    BY <2>1, <2>2 DEF FoundIsReported, FoundIsReturned, Overlooked, Overwritten
  <2>5. EveryListIsHeld
    BY <1>1, <2>1 DEF Inv, NoListLeak, EveryListIsHeld
  <2>. QED BY <2>3, <2>4, <2>5
<1>. QED BY <1>1, ResolverInvariance, PTL

\* An address that is returned is of a family that was asked for, and was found
\* by this call, whoever uses the places of requests besides; unless an answer
\* glibc's gai() did not wait for was written into the request.
THEOREM TheAddressIsRight == Spec => []RightAddress
<1>1. Inv => RightAddress
  BY DEF Inv, Ended, HasHeard, RightAddress
<1>. QED BY <1>1, ResolverInvariance, PTL

=============================================================================
