---------------------------- MODULE Backends_proofs -----------------------------
(***************************************************************************)
(* Proofs that the backends keep the contract with the loop, for any number *)
(* of polls, as long as nobody uses the calls they do not support: stopping *)
(* a poll in post_cb of libuv, and clearing or closing a timer of gcd; and   *)
(* that asio's count of waits is right, whatever the application calls.     *)
(***************************************************************************)
EXTENDS Backends, Integers, FiniteSetTheorems, WellFoundedInduction, TLAPS

Supported == Inputs \cap {"stop_in_post", "close_timer", "clear_timer"} = {}

Events == {"in", "out"}

\* What the loop and the backends both know.
Typing ==
  /\ poll \in [Polls -> [state : {"none", "made", "started", "stopped"}, events : SUBSET Events]]
  /\ \A p \in Polls : poll[p].state # "started" => poll[p].events = {}

\* The steps of the contract leave its types alone.
LEMMA MadeTyped ==
  ASSUME Typing, NEW p \in Polls, Contract!Made(p)
  PROVE  /\ Typing' /\ poll'[p] = [state |-> "made", events |-> {}]
         /\ \A q \in Polls \ {p} : poll'[q] = poll[q]
<1>1. poll[p].state = "none" /\ poll' = [poll EXCEPT ![p].state = "made"]
  BY DEF Contract!Made
<1>2. poll'[p] = [poll[p] EXCEPT !.state = "made"] /\ \A q \in Polls \ {p} : poll'[q] = poll[q]
  BY <1>1 DEF Typing
<1>3. poll'[p] = [state |-> "made", events |-> {}]
  BY <1>1, <1>2 DEF Typing
<1> QED
  BY <1>1, <1>2, <1>3 DEF Typing, Events

\* Starting it.
LEMMA StartedTyped ==
  ASSUME Typing, NEW p \in Polls, NEW e \in SUBSET Events, Contract!Started(p, e)
  PROVE  /\ Typing' /\ poll'[p] = [state |-> "started", events |-> e]
         /\ \A q \in Polls \ {p} : poll'[q] = poll[q]
BY DEF Contract!Started, Typing, Events

\* Changing what it is polled for.
LEMMA ChangedTyped ==
  ASSUME Typing, NEW p \in Polls, NEW e \in SUBSET Events, Contract!Changed(p, e)
  PROVE  /\ Typing' /\ poll'[p] = [state |-> "started", events |-> e]
         /\ \A q \in Polls \ {p} : poll'[q] = poll[q]
<1>1. poll[p].state = "started" /\ poll' = [poll EXCEPT ![p].events = e]
  BY DEF Contract!Changed
<1>2. poll'[p] = [poll[p] EXCEPT !.events = e] /\ \A q \in Polls \ {p} : poll'[q] = poll[q]
  BY <1>1 DEF Typing
<1>3. poll'[p] = [state |-> "started", events |-> e]
  BY <1>1, <1>2 DEF Typing
<1> QED
  BY <1>1, <1>2, <1>3 DEF Typing, Events

\* Stopping it.
LEMMA StoppedTyped ==
  ASSUME Typing, NEW p \in Polls, Contract!Stopped(p)
  PROVE  /\ Typing' /\ poll'[p] = [state |-> "stopped", events |-> {}]
         /\ \A q \in Polls \ {p} : poll'[q] = poll[q]
BY DEF Contract!Stopped, Typing, Events

\* Freeing some.
LEMMA FreedTyped ==
  ASSUME Typing, NEW S, Contract!Freed(S)
  PROVE  /\ Typing'
         /\ \A p \in Polls : poll'[p] = IF p \in S THEN [state |-> "none", events |-> {}] ELSE poll[p]
BY DEF Contract!Freed, Contract!NoPoll, Typing, Events

\* In the beginning there is none.
LEMMA InitTyped == Contract!ContractInit => Typing
BY DEF Contract!ContractInit, Contract!NoPoll, Typing, Events

-----------------------------------------------------------------------------
(* Grand Central Dispatch. *)

\* How often the sources of a poll that is polled for `on` are suspended.
Level(on) == [e \in Events |-> IF e \in on THEN 0 ELSE 1]
NoSources == [e \in Events |-> -1]

GcdDev(d) ==
  d \in [suspended : [Polls -> [Events -> Int]], context : [Polls -> {"block"}],
         broken : {FALSE}, timer : BOOLEAN]

\* From d to n only the sources of p change, to the level l, and GCD is content.
Levels(d, p, l, n) ==
  /\ GcdDev(n) /\ n.timer = d.timer /\ n.suspended[p] = l
  /\ \A q \in Polls \ {p} : n.suspended[q] = d.suspended[q]

\* The sources of p get the level l.
LEMMA PutLevel ==
  ASSUME NEW d, GcdDev(d), NEW p \in Polls, NEW l \in [Events -> Int], NEW n,
         n = [suspended |-> [d.suspended EXCEPT ![p] = l], context |-> d.context,
              broken |-> FALSE, timer |-> d.timer]
  PROVE  Levels(d, p, l, n)
<1>1. [d.suspended EXCEPT ![p] = l] \in [Polls -> [Events -> Int]]
  BY DEF GcdDev
<1>2. n.suspended = [d.suspended EXCEPT ![p] = l] /\ n.timer = d.timer
  OBVIOUS
<1>3. GcdDev(n)
  BY <1>1 DEF GcdDev
<1> QED
  BY <1>2, <1>3 DEF Levels, GcdDev

\* Making the sources of a poll: both are suspended once.
LEMMA SourcesLevel ==
  ASSUME NEW d, GcdDev(d), NEW p \in Polls
  PROVE  Levels(d, p, Level({}), Gcd!Sources(d, p))
<1> DEFINE n == Gcd!Sources(d, p)
           l == [e \in Events |-> 1]
<1>1. n = [d EXCEPT !.suspended[p] = l, !.context[p] = "block"]
  BY DEF Gcd!Sources, Gcd!Events, Events
<1>2. l = Level({}) /\ l \in [Events -> Int]
  BY DEF Level
<1> HIDE DEF l
<1>3. n = [suspended |-> [d.suspended EXCEPT ![p] = l], context |-> d.context,
           broken |-> FALSE, timer |-> d.timer]
  <2>1. [d.context EXCEPT ![p] = "block"] = d.context
    BY DEF GcdDev
  <2> QED
    BY <1>1, <1>2, <2>1 DEF GcdDev
<1> HIDE DEF n
<1>5. Levels(d, p, Level({}), n)
  BY <1>2, <1>3, PutLevel
<1> QED
  BY <1>5 DEF n

\* Resuming one that is suspended.
LEMMA ResumeLevel ==
  ASSUME NEW d, GcdDev(d), NEW p \in Polls, NEW on, NEW E \in SUBSET Events, on \cap E = {},
         d.suspended[p] = Level(on)
  PROVE  Levels(d, p, Level(on \cup E), Gcd!Resume(d, p, E))
<1> DEFINE n == Gcd!Resume(d, p, E)
           l == [e \in Events |-> IF e \in E THEN d.suspended[p][e] - 1 ELSE d.suspended[p][e]]
           b == d.broken \/ \E e \in E : d.suspended[p][e] <= 0
<1>1. n = [d EXCEPT !.suspended[p] = l, !.broken = b]
  BY DEF GcdDev, Gcd!Resume, Gcd!Events, Events
<1>2. l = Level(on \cup E) /\ l \in [Events -> Int]
  BY DEF Level
<1>3. b = FALSE
  <2>1. d.broken = FALSE
    BY DEF GcdDev
  <2>2. \A e \in E : d.suspended[p][e] = 1
    BY DEF Level
  <2>3. ~\E e \in E : d.suspended[p][e] <= 0
    BY <2>2
  <2> QED
    BY <2>1, <2>3
<1> HIDE DEF l, b
<1>4. n = [suspended |-> [d.suspended EXCEPT ![p] = l], context |-> d.context,
           broken |-> FALSE, timer |-> d.timer]
  BY <1>1, <1>2, <1>3 DEF GcdDev
<1> HIDE DEF n
<1>5. Levels(d, p, Level(on \cup E), n)
  BY <1>2, <1>4, PutLevel
<1> QED
  BY <1>5 DEF n

\* Suspending one that is not.
LEMMA SuspendLevel ==
  ASSUME NEW d, GcdDev(d), NEW p \in Polls, NEW on, NEW E \in SUBSET on, E \subseteq Events,
         d.suspended[p] = Level(on)
  PROVE  Levels(d, p, Level(on \ E), Gcd!Suspend(d, p, E))
<1> DEFINE n == Gcd!Suspend(d, p, E)
           l == [e \in Events |-> IF e \in E THEN d.suspended[p][e] + 1 ELSE d.suspended[p][e]]
<1>1. n = [d EXCEPT !.suspended[p] = l]
  BY DEF GcdDev, Gcd!Suspend, Gcd!Events, Events
<1>2. l = Level(on \ E) /\ l \in [Events -> Int]
  BY DEF Level
<1> HIDE DEF l
<1>3. n = [suspended |-> [d.suspended EXCEPT ![p] = l], context |-> d.context,
           broken |-> FALSE, timer |-> d.timer]
  BY <1>1, <1>2 DEF GcdDev
<1> HIDE DEF n
<1>5. Levels(d, p, Level(on \ E), n)
  BY <1>2, <1>3, PutLevel
<1> QED
  BY <1>5 DEF n

\* Releasing both, while they are not suspended.
LEMMA ReleaseLevel ==
  ASSUME NEW d, GcdDev(d), NEW p \in Polls, d.suspended[p] = Level(Events)
  PROVE  Levels(d, p, NoSources, Gcd!Release(d, p))
<1> DEFINE n == Gcd!Release(d, p)
           b == d.broken \/ \E e \in Events : d.suspended[p][e] > 0
<1>1. n = [d EXCEPT !.suspended[p] = NoSources, !.broken = b]
  BY DEF Gcd!Release, Gcd!NoSources, Gcd!Events, Events, NoSources
<1>2. NoSources \in [Events -> Int]
  BY DEF NoSources
<1>3. b = FALSE
  <2>1. d.broken = FALSE
    BY DEF GcdDev
  <2>2. \A e \in Events : d.suspended[p][e] = 0
    BY DEF Level
  <2>3. ~\E e \in Events : d.suspended[p][e] > 0
    BY <2>2
  <2> QED
    BY <2>1, <2>3
<1> HIDE DEF b
<1>4. n = [suspended |-> [d.suspended EXCEPT ![p] = NoSources], context |-> d.context,
           broken |-> FALSE, timer |-> d.timer]
  BY <1>1, <1>2, <1>3 DEF GcdDev
<1> HIDE DEF n
<1>5. Levels(d, p, NoSources, n)
  BY <1>2, <1>4, PutLevel
<1> QED
  BY <1>5 DEF n

\* From one level to the next and on to another.
LEMMA LevelsOn ==
  ASSUME NEW d, NEW p, NEW l, NEW k, NEW m, NEW n, Levels(d, p, l, m), Levels(m, p, k, n)
  PROVE  Levels(d, p, k, n)
BY DEF Levels

\* Switching from old to new events resumes and suspends each source at most once.
LEMMA SwitchLevel ==
  ASSUME NEW d, GcdDev(d), NEW p \in Polls, NEW old \in SUBSET Events, NEW new \in SUBSET Events,
         d.suspended[p] = Level(old)
  PROVE  Levels(d, p, Level(new), Gcd!Switch(d, p, old, new))
<1> DEFINE m == Gcd!Suspend(d, p, old \ new)
<1>1. Levels(d, p, Level(old \ (old \ new)), m)
  BY SuspendLevel
<1> HIDE DEF m
<1>2. GcdDev(m) /\ m.suspended[p] = Level(old \ (old \ new))
  BY <1>1 DEF Levels
<1>3. Levels(m, p, Level((old \ (old \ new)) \cup (new \ old)), Gcd!Resume(m, p, new \ old))
  BY <1>2, ResumeLevel
<1>4. (old \ (old \ new)) \cup (new \ old) = new
  OBVIOUS
<1>5. Gcd!Switch(d, p, old, new) = Gcd!Resume(m, p, new \ old)
  BY DEF Gcd!Switch, m
<1> QED
  BY <1>1, <1>3, <1>4, <1>5, LevelsOn

\* A poll that is freed, or the old block of one that moved.
LEMMA DoneLevel ==
  ASSUME NEW d, GcdDev(d), Typing, NEW p \in Polls, d.suspended[p] = Level(poll[p].events)
  PROVE  Levels(d, p, NoSources, Gcd!Release(Gcd!Unsuspended(d, p), p))
<1> DEFINE m == Gcd!Unsuspended(d, p)
<1>1. m = Gcd!Switch(d, p, poll[p].events, Events)
  BY DEF Gcd!Unsuspended, Gcd!Events, Events
<1>2. poll[p].events \in SUBSET Events
  BY DEF Typing
<1> HIDE DEF m
<1>3. Levels(d, p, Level(Events), m)
  BY <1>1, <1>2, SwitchLevel
<1>4. Levels(m, p, NoSources, Gcd!Release(m, p))
  BY <1>3, ReleaseLevel DEF Levels
<1> QED
  BY <1>3, <1>4, LevelsOn DEF m

\* The sources of a poll are as often suspended as its events say.
GcdInv ==
  /\ Typing /\ GcdDev(dev) /\ (dev.timer => timer = "set")
  /\ \A p \in Polls : dev.suspended[p] = IF poll[p].state = "none" THEN NoSources
                                        ELSE Level(poll[p].events)

ContractStep == [Contract!ContractNext]_Contract!contractVars

\* A step that changes one poll, and its sources to match.
LEMMA GcdOnePoll ==
  ASSUME GcdInv, Typing', NEW p \in Polls, \A q \in Polls \ {p} : poll'[q] = poll[q],
         Levels(dev, p, IF poll'[p].state = "none" THEN NoSources ELSE Level(poll'[p].events), dev'),
         timer' = timer
  PROVE  GcdInv'
BY DEF GcdInv, Levels

\* Making a poll makes its sources.
LEMMA GcdCreatePoll ==
  ASSUME GcdInv, NEW p \in Polls, Gcd!CreatePoll(p)
  PROVE  GcdInv' /\ ContractStep
<1>1. Contract!Made(p) /\ UNCHANGED <<timer, call>> /\ dev' = Gcd!Sources(dev, p)
  BY DEF Gcd!CreatePoll, Gcd!Made, Contract!Made
<1>2. /\ Typing' /\ poll'[p] = [state |-> "made", events |-> {}]
      /\ \A q \in Polls \ {p} : poll'[q] = poll[q]
  BY <1>1, MadeTyped DEF GcdInv
<1>3. Levels(dev, p, Level({}), dev')
  BY <1>1, SourcesLevel DEF GcdInv
<1>4. GcdInv'
  BY <1>1, <1>2, <1>3, GcdOnePoll
<1> QED
  BY <1>1, <1>4 DEF ContractStep, Contract!ContractNext

\* Starting resumes those polled for.
LEMMA GcdStart ==
  ASSUME GcdInv, NEW p \in Polls, NEW e \in SUBSET Events, Gcd!Start(p, e)
  PROVE  GcdInv' /\ ContractStep
<1>1. Contract!Started(p, e) /\ UNCHANGED <<timer, call>> /\ dev' = Gcd!Resume(dev, p, e)
  BY DEF Gcd!Start, Gcd!Started, Contract!Started
<1>2. /\ Typing' /\ poll'[p] = [state |-> "started", events |-> e]
      /\ \A q \in Polls \ {p} : poll'[q] = poll[q]
  BY <1>1, StartedTyped DEF GcdInv
<1>3. poll[p].state = "made" /\ poll[p].events = {}
  BY <1>1 DEF Contract!Started, GcdInv, Typing
<1>4. dev.suspended[p] = Level({})
  BY <1>3 DEF GcdInv
<1>5. Levels(dev, p, Level({} \cup e), dev')
  BY <1>1, <1>4, ResumeLevel DEF GcdInv
<1>6. {} \cup e = e
  OBVIOUS
<1>7. GcdInv'
  BY <1>1, <1>2, <1>5, <1>6, GcdOnePoll
<1> QED
  BY <1>1, <1>7 DEF ContractStep, Contract!ContractNext, Contract!Events, Events

\* Changing resumes and suspends the sources that differ.
LEMMA GcdChange ==
  ASSUME GcdInv, NEW p \in Polls, NEW e \in SUBSET Events, Gcd!Change(p, e)
  PROVE  GcdInv' /\ ContractStep
<1>1. Contract!Changed(p, e) /\ UNCHANGED <<timer, call>>
      /\ dev' = Gcd!Switch(dev, p, poll[p].events, e)
  BY DEF Gcd!Change, Gcd!Changed, Contract!Changed
<1>2. /\ Typing' /\ poll'[p] = [state |-> "started", events |-> e]
      /\ \A q \in Polls \ {p} : poll'[q] = poll[q]
  BY <1>1, ChangedTyped DEF GcdInv
<1>3. dev.suspended[p] = Level(poll[p].events) /\ poll[p].events \in SUBSET Events
  BY <1>1 DEF Contract!Changed, GcdInv, Typing
<1>4. Levels(dev, p, Level(e), dev')
  BY <1>1, <1>3, SwitchLevel DEF GcdInv
<1>5. GcdInv'
  BY <1>1, <1>2, <1>4, GcdOnePoll
<1> QED
  BY <1>1, <1>5 DEF ContractStep, Contract!ContractNext, Contract!Events, Events

\* Stopping suspends all.
LEMMA GcdStop ==
  ASSUME GcdInv, NEW p \in Polls, Gcd!Stop(p)
  PROVE  GcdInv' /\ ContractStep
<1>1. Contract!Stopped(p) /\ UNCHANGED <<timer, call>>
      /\ dev' = Gcd!Suspend(dev, p, poll[p].events)
  BY DEF Gcd!Stop, Gcd!Stopped, Contract!Stopped
<1>2. /\ Typing' /\ poll'[p] = [state |-> "stopped", events |-> {}]
      /\ \A q \in Polls \ {p} : poll'[q] = poll[q]
  BY <1>1, StoppedTyped DEF GcdInv
<1>3. dev.suspended[p] = Level(poll[p].events) /\ poll[p].events \subseteq Events
  BY <1>1 DEF Contract!Stopped, GcdInv, Typing
<1>4. Levels(dev, p, Level(poll[p].events \ poll[p].events), dev')
  BY <1>1, <1>3, SuspendLevel DEF GcdInv
<1>5. poll[p].events \ poll[p].events = {}
  OBVIOUS
<1>6. GcdInv'
  BY <1>1, <1>2, <1>4, <1>5, GcdOnePoll
<1> QED
  BY <1>1, <1>6 DEF ContractStep, Contract!ContractNext

\* Freeing releases the sources.
LEMMA GcdFree ==
  ASSUME GcdInv, NEW p \in Polls, Gcd!Free(p)
  PROVE  GcdInv' /\ ContractStep
<1>1. Contract!Freed({p}) /\ UNCHANGED <<timer, call>>
      /\ dev' = Gcd!Release(Gcd!Unsuspended(dev, p), p)
  BY DEF Gcd!Free, Gcd!Freed, Contract!Freed, Gcd!NoPoll, Contract!NoPoll
<1>2. /\ Typing' /\ poll'[p] = [state |-> "none", events |-> {}]
      /\ \A q \in Polls \ {p} : poll'[q] = poll[q]
  BY <1>1, FreedTyped DEF GcdInv
<1>3. dev.suspended[p] = Level(poll[p].events)
  BY <1>1 DEF Contract!Freed, GcdInv
<1>4. Levels(dev, p, NoSources, dev')
  BY <1>1, <1>3, DoneLevel DEF GcdInv
<1>5. GcdInv'
  BY <1>1, <1>2, <1>4, GcdOnePoll
<1> QED
  BY <1>1, <1>5 DEF ContractStep, Contract!ContractNext

\* Resizing makes new sources when the block moved.
LEMMA GcdResize ==
  ASSUME GcdInv, NEW p \in Polls, NEW moved \in BOOLEAN, Gcd!Resize(p, moved)
  PROVE  GcdInv' /\ ContractStep
<1>1. poll[p].state = "started" /\ UNCHANGED <<poll, timer, call>>
  BY DEF Gcd!Resize
<1>2. Typing' /\ dev.suspended[p] = Level(poll[p].events) /\ poll[p].events \in SUBSET Events
  BY <1>1 DEF GcdInv, Typing
<1>3. CASE moved
  <2> DEFINE k == Gcd!Release(Gcd!Unsuspended(dev, p), p)
             m == Gcd!Sources(k, p)
  <2>1. dev' = Gcd!Resume(m, p, poll[p].events)
    BY <1>3 DEF Gcd!Resize
  <2>2. Levels(dev, p, NoSources, k)
    BY <1>2, DoneLevel DEF GcdInv
  <2> HIDE DEF k
  <2>3. Levels(k, p, Level({}), m)
    BY <2>2, SourcesLevel DEF Levels
  <2> HIDE DEF m
  <2>4. Levels(m, p, Level({} \cup poll[p].events), dev')
    <3>1. GcdDev(m) /\ m.suspended[p] = Level({})
      BY <2>3 DEF Levels
    <3> QED
      BY <1>2, <2>1, <3>1, ResumeLevel
  <2>5. {} \cup poll[p].events = poll[p].events
    OBVIOUS
  <2>6. Levels(dev, p, Level(poll[p].events), dev')
    BY <2>2, <2>3, <2>4, <2>5, LevelsOn
  <2>7. GcdInv'
    BY <1>1, <1>2, <2>6, GcdOnePoll
  <2> QED
    BY <1>1, <2>7 DEF ContractStep, Contract!contractVars
<1>4. CASE ~moved
  <2>1. dev' = dev
    BY <1>4 DEF Gcd!Resize
  <2> QED
    BY <1>1, <1>2, <2>1 DEF GcdInv, ContractStep, Contract!contractVars
<1> QED
  BY <1>3, <1>4

\* A source calls its handler while it is not suspended.
LEMMA GcdHandler ==
  ASSUME GcdInv, NEW p \in Polls, NEW e \in Events, Gcd!Handler(p, e)
  PROVE  GcdInv' /\ ContractStep
<1>1. /\ call = Contract!NoCall /\ dev.suspended[p][e] = 0 /\ UNCHANGED <<poll, timer, dev>>
      /\ call' = [who |-> IF dev.context[p] = "block" THEN p ELSE NULL, events |-> {e}]
  BY DEF Gcd!Handler, Gcd!NoCall, Contract!NoCall
<1>2. dev.context[p] = "block"
  BY DEF GcdInv, GcdDev
<1>3. poll[p].state # "none" /\ e \in poll[p].events
  <2>1. NoSources[e] = -1 /\ Level(poll[p].events)[e] = IF e \in poll[p].events THEN 0 ELSE 1
    BY DEF NoSources, Level
  <2>2. dev.suspended[p] = IF poll[p].state = "none" THEN NoSources ELSE Level(poll[p].events)
    BY DEF GcdInv
  <2> QED
    BY <1>1, <2>1, <2>2
<1>4. poll[p].state = "started"
  BY <1>3 DEF GcdInv, Typing
<1>5. Contract!Dispatched(p, {e})
  BY <1>1, <1>2, <1>3, <1>4 DEF Contract!Dispatched
<1>6. {e} \in SUBSET Contract!Events
  BY DEF Events, Contract!Events
<1>7. GcdInv'
  BY <1>1 DEF GcdInv, Typing
<1> QED
  BY <1>1, <1>5, <1>6, <1>7 DEF ContractStep, Contract!ContractNext

\* Without the two calls that gcd does not support, a timer that fires is set.
LEMMA GcdTimers ==
  ASSUME GcdInv, Supported,
         \/ Gcd!Return \/ Gcd!CreateTimer \/ Gcd!CloseTimer \/ Gcd!TimerHandler
         \/ \E ms \in {0, 1} : Gcd!SetTimer(ms)
  PROVE  GcdInv' /\ ContractStep
<1>1. CASE Gcd!Return
  BY <1>1 DEF Gcd!Return, Gcd!Returned, Gcd!NoCall, GcdInv, Typing, ContractStep,
     Contract!ContractNext, Contract!Returned, Contract!NoCall
<1>2. CASE Gcd!CreateTimer
  BY <1>2 DEF Gcd!CreateTimer, Gcd!TimerTo, GcdInv, Typing, ContractStep,
     Contract!ContractNext, Contract!TimerTo
<1>3. CASE Gcd!CloseTimer
  BY <1>3 DEF Gcd!CloseTimer, Gcd!TimerTo, Supported, GcdInv, Typing, ContractStep,
     Contract!ContractNext, Contract!TimerTo
<1>4. CASE Gcd!TimerHandler
  BY <1>4 DEF Gcd!TimerHandler, Gcd!NoCall, GcdInv, Typing, ContractStep,
     Contract!ContractNext, Contract!Fired, Contract!NoCall
<1>5. CASE \E ms \in {0, 1} : Gcd!SetTimer(ms)
  <2>1. /\ timer \in {"idle", "set"} /\ timer' = "set" /\ UNCHANGED <<poll, call>>
        /\ dev' = [dev EXCEPT !.timer = TRUE]
    BY <1>5 DEF Gcd!SetTimer, Gcd!TimerTo, Supported
  <2>2. GcdDev(dev') /\ dev'.suspended = dev.suspended
    BY <2>1 DEF GcdInv, GcdDev
  <2>3. GcdInv'
    BY <2>1, <2>2 DEF GcdInv, Typing
  <2> QED
    BY <2>1, <2>3 DEF ContractStep, Contract!ContractNext, Contract!TimerTo
<1> QED
  BY <1>1, <1>2, <1>3, <1>4, <1>5

\* Every step of GCD.
LEMMA GcdStep ==
  ASSUME GcdInv, Supported, Gcd!GcdNext
  PROVE  GcdInv' /\ ContractStep
<1>1. ASSUME NEW p \in Polls,
             \/ Gcd!CreatePoll(p) \/ Gcd!Stop(p) \/ Gcd!Free(p)
             \/ \E moved \in BOOLEAN : Gcd!Resize(p, moved)
             \/ \E e \in SUBSET Events : Gcd!Start(p, e) \/ Gcd!Change(p, e)
             \/ \E e \in Events : Gcd!Handler(p, e)
      PROVE  GcdInv' /\ ContractStep
  BY <1>1, GcdCreatePoll, GcdStop, GcdFree, GcdResize, GcdStart, GcdChange, GcdHandler
<1>2. Gcd!Events = Events
  BY DEF Gcd!Events, Events
<1> QED
  BY <1>1, <1>2, GcdTimers DEF Gcd!GcdNext

\* GCD at the start.
LEMMA GcdStarts ==
  ASSUME Gcd!GcdInit
  PROVE  GcdInv /\ Contract!ContractInit
<1>1. Contract!ContractInit
  BY DEF Gcd!GcdInit, Gcd!ContractInit, Contract!ContractInit, Gcd!NoPoll, Contract!NoPoll,
     Gcd!NoCall, Contract!NoCall
<1>2. \A p \in Polls : poll[p].state = "none"
  BY <1>1 DEF Contract!ContractInit, Contract!NoPoll
<1>3. dev = [suspended |-> [p \in Polls |-> NoSources],
             context |-> [p \in Polls |-> "block"], broken |-> FALSE, timer |-> FALSE]
  BY DEF Gcd!GcdInit, Gcd!NoSources, NoSources, Gcd!Events, Events
<1>4. NoSources \in [Events -> Int]
  BY DEF NoSources
<1>5. GcdDev(dev) /\ \A p \in Polls : dev.suspended[p] = NoSources
  BY <1>3, <1>4 DEF GcdDev
<1> QED
  BY <1>1, <1>2, <1>3, <1>5, InitTyped DEF GcdInv

-----------------------------------------------------------------------------
(* libuv. *)

LibuvDev(d) ==
  d \in [phase : {"poll", "post", "closing"},
         handle : [Polls -> {"none", "raw", "open", "closing", "closed"}],
         data : [Polls -> {"null", "block"}], ready : [Polls -> SUBSET Events],
         timer : {"none", "open", "closing"}]

\* The two blocks of a poll: a handle that is closed late belongs to a poll that was
\* freed and left its block to the close callback.
TwoBlocks(p) ==
  /\ poll[p].state = "none" => \/ dev.handle[p] = "none"
                               \/ dev.handle[p] = "closing" /\ dev.data[p] = "block"
  /\ poll[p].state = "made" => dev.handle[p] = "raw" /\ dev.data[p] = "block"
  /\ poll[p].state = "started" => dev.handle[p] = "open" /\ dev.data[p] = "block"
  /\ poll[p].state = "stopped" => dev.handle[p] = "closing" /\ dev.phase = "poll"
  /\ dev.ready[p] \subseteq poll[p].events

LibuvInv == Typing /\ LibuvDev(dev) /\ \A p \in Polls : TwoBlocks(p)

\* A step that changes one poll, and its handle to match.
LEMMA LibuvOnePoll ==
  ASSUME LibuvInv, Typing', LibuvDev(dev'), NEW p \in Polls, TwoBlocks(p)', dev'.phase = dev.phase,
         \A q \in Polls \ {p} : /\ poll'[q] = poll[q] /\ dev'.handle[q] = dev.handle[q]
                               /\ dev'.data[q] = dev.data[q] /\ dev'.ready[q] = dev.ready[q]
  PROVE  LibuvInv'
BY DEF LibuvInv, TwoBlocks

\* A step that changes neither polls nor handles.
LEMMA LibuvNoPoll ==
  ASSUME LibuvInv, poll' = poll, LibuvDev(dev'), dev'.handle = dev.handle, dev'.data = dev.data,
         dev'.ready = dev.ready,
         dev'.phase = dev.phase \/ \A p \in Polls : poll[p].state # "stopped"
  PROVE  LibuvInv'
BY DEF LibuvInv, Typing, TwoBlocks

\* A poll that is made has both of its blocks.
LEMMA LibuvCreatePoll ==
  ASSUME LibuvInv, NEW p \in Polls, Libuv!CreatePoll(p)
  PROVE  LibuvInv' /\ ContractStep
<1>1. Contract!Made(p) /\ UNCHANGED <<timer, call>> /\ dev.handle[p] = "none"
      /\ dev' = [dev EXCEPT !.handle[p] = "raw", !.data[p] = "block"]
  BY DEF Libuv!CreatePoll, Libuv!Made, Contract!Made
<1>2. /\ Typing' /\ poll'[p] = [state |-> "made", events |-> {}]
      /\ \A q \in Polls \ {p} : poll'[q] = poll[q]
  BY <1>1, MadeTyped DEF LibuvInv
<1>3. poll[p].state = "none" /\ poll[p].events = {}
  BY <1>1 DEF Contract!Made, LibuvInv, Typing
<1>4. /\ LibuvDev(dev') /\ dev'.handle[p] = "raw" /\ dev'.data[p] = "block"
      /\ dev'.ready = dev.ready /\ dev'.phase = dev.phase
      /\ \A q \in Polls \ {p} : dev'.handle[q] = dev.handle[q] /\ dev'.data[q] = dev.data[q]
  BY <1>1 DEF LibuvInv, LibuvDev
<1>5. TwoBlocks(p)'
  BY <1>2, <1>3, <1>4 DEF LibuvInv, TwoBlocks
<1>6. LibuvInv'
  BY <1>2, <1>4, <1>5, LibuvOnePoll
<1> QED
  BY <1>1, <1>6 DEF ContractStep, Contract!ContractNext

\* Starting it.
LEMMA LibuvStart ==
  ASSUME LibuvInv, NEW p \in Polls, NEW e \in SUBSET Events, Libuv!Start(p, e)
  PROVE  LibuvInv' /\ ContractStep
<1>1. Contract!Started(p, e) /\ UNCHANGED <<timer, call>>
      /\ dev' = [dev EXCEPT !.handle[p] = "open"]
  BY DEF Libuv!Start, Libuv!Started, Contract!Started
<1>2. /\ Typing' /\ poll'[p] = [state |-> "started", events |-> e]
      /\ \A q \in Polls \ {p} : poll'[q] = poll[q]
  BY <1>1, StartedTyped DEF LibuvInv
<1>3. poll[p].state = "made" /\ poll[p].events = {}
  BY <1>1 DEF Contract!Started, LibuvInv, Typing
<1>4. /\ LibuvDev(dev') /\ dev'.handle[p] = "open" /\ dev'.ready = dev.ready /\ dev'.phase = dev.phase
      /\ dev'.data = dev.data /\ \A q \in Polls \ {p} : dev'.handle[q] = dev.handle[q]
  BY <1>1 DEF LibuvInv, LibuvDev
<1>5. TwoBlocks(p)'
  BY <1>2, <1>3, <1>4 DEF LibuvInv, TwoBlocks
<1>6. LibuvInv'
  BY <1>2, <1>4, <1>5, LibuvOnePoll
<1> QED
  BY <1>1, <1>6 DEF ContractStep, Contract!ContractNext, Contract!Events, Events

\* Changing it.
LEMMA LibuvChange ==
  ASSUME LibuvInv, NEW p \in Polls, NEW e \in SUBSET Events, Libuv!Change(p, e)
  PROVE  LibuvInv' /\ ContractStep
<1>1. Contract!Changed(p, e) /\ UNCHANGED <<timer, call>>
      /\ dev' = [dev EXCEPT !.ready[p] = @ \cap e]
  BY DEF Libuv!Change, Libuv!Changed, Contract!Changed
<1>2. /\ Typing' /\ poll'[p] = [state |-> "started", events |-> e]
      /\ \A q \in Polls \ {p} : poll'[q] = poll[q]
  BY <1>1, ChangedTyped DEF LibuvInv
<1>3. poll[p].state = "started"
  BY <1>1 DEF Contract!Changed
<1>4. /\ LibuvDev(dev') /\ dev'.handle = dev.handle /\ dev'.phase = dev.phase
      /\ dev'.data = dev.data /\ dev'.ready[p] = dev.ready[p] \cap e
      /\ \A q \in Polls \ {p} : dev'.ready[q] = dev.ready[q]
  BY <1>1 DEF LibuvInv, LibuvDev
<1>5. dev.handle[p] = "open" /\ dev.data[p] = "block"
  BY <1>3 DEF LibuvInv, TwoBlocks
<1>6. TwoBlocks(p)'
  BY <1>2, <1>4, <1>5 DEF TwoBlocks
<1>7. LibuvInv'
  BY <1>2, <1>4, <1>6, LibuvOnePoll
<1> QED
  BY <1>1, <1>7 DEF ContractStep, Contract!ContractNext, Contract!Events, Events

\* Stopping it.
LEMMA LibuvStop ==
  ASSUME LibuvInv, Supported, NEW p \in Polls, Libuv!Stop(p)
  PROVE  LibuvInv' /\ ContractStep
<1>1. Contract!Stopped(p) /\ UNCHANGED <<timer, call>> /\ dev.phase = "poll"
      /\ dev' = [dev EXCEPT !.handle[p] = "closing", !.data[p] = "null", !.ready[p] = {}]
  BY DEF Libuv!Stop, Libuv!Stopped, Contract!Stopped, Supported
<1>2. /\ Typing' /\ poll'[p] = [state |-> "stopped", events |-> {}]
      /\ \A q \in Polls \ {p} : poll'[q] = poll[q]
  BY <1>1, StoppedTyped DEF LibuvInv
<1>3. /\ LibuvDev(dev') /\ dev'.handle[p] = "closing" /\ dev'.phase = dev.phase /\ dev'.ready[p] = {}
      /\ \A q \in Polls \ {p} : /\ dev'.handle[q] = dev.handle[q] /\ dev'.data[q] = dev.data[q]
                                 /\ dev'.ready[q] = dev.ready[q]
  BY <1>1 DEF LibuvInv, LibuvDev
<1>4. TwoBlocks(p)'
  BY <1>1, <1>2, <1>3 DEF TwoBlocks
<1>5. LibuvInv'
  BY <1>2, <1>3, <1>4, LibuvOnePoll
<1> QED
  BY <1>1, <1>5 DEF ContractStep, Contract!ContractNext

\* Resizing changes nothing here.
LEMMA LibuvResize ==
  ASSUME LibuvInv, NEW p \in Polls, Libuv!Resize(p)
  PROVE  LibuvInv' /\ ContractStep
<1>1. poll[p].state = "started" /\ UNCHANGED <<poll, timer, call>>
      /\ dev' = [dev EXCEPT !.data[p] = "block"]
  BY DEF Libuv!Resize, Libuv!Moved
<1>2. dev' = dev
  <2>1. dev.data[p] = "block"
    BY <1>1 DEF LibuvInv, TwoBlocks
  <2> QED
    BY <1>1, <2>1 DEF LibuvInv, LibuvDev
<1> QED
  BY <1>1, <1>2, LibuvNoPoll DEF LibuvInv, ContractStep, Contract!contractVars

\* The kernel reports what is polled for, and poll_cb dispatches it.
LEMMA LibuvPoll ==
  ASSUME LibuvInv, NEW p \in Polls, NEW e \in SUBSET Events, Libuv!Poll(p, e)
  PROVE  LibuvInv' /\ ContractStep
<1>1. e \subseteq poll[p].events /\ UNCHANGED <<poll, timer, call>>
      /\ dev' = [dev EXCEPT !.ready[p] = e]
  BY DEF Libuv!Poll
<1>2. /\ LibuvDev(dev') /\ dev'.handle = dev.handle /\ dev'.phase = dev.phase
      /\ dev'.data = dev.data /\ dev'.ready[p] = e
      /\ \A q \in Polls \ {p} : dev'.ready[q] = dev.ready[q]
  BY <1>1 DEF LibuvInv, LibuvDev
<1>3. TwoBlocks(p)' /\ Typing'
  BY <1>1, <1>2 DEF LibuvInv, TwoBlocks, Typing
<1>4. LibuvInv'
  BY <1>1, <1>2, <1>3, LibuvOnePoll
<1> QED
  BY <1>1, <1>4 DEF ContractStep, Contract!contractVars

\* poll_cb dispatches.
LEMMA LibuvPollCb ==
  ASSUME LibuvInv, NEW p \in Polls, Libuv!PollCb(p)
  PROVE  LibuvInv' /\ ContractStep
<1>1. PICK e \in {dev.ready[p], {"error"}} :
        call' = [who |-> IF dev.data[p] = "block" THEN p ELSE NULL, events |-> e]
  BY DEF Libuv!PollCb
<1>2. call = Contract!NoCall /\ dev.ready[p] # {} /\ UNCHANGED <<poll, timer>>
      /\ dev' = [dev EXCEPT !.ready[p] = {}]
  BY DEF Libuv!PollCb, Libuv!NoCall, Contract!NoCall
<1>3. /\ LibuvDev(dev') /\ dev'.handle = dev.handle /\ dev'.phase = dev.phase
      /\ dev'.data = dev.data /\ dev'.ready[p] = {}
      /\ \A q \in Polls \ {p} : dev'.ready[q] = dev.ready[q]
  BY <1>2 DEF LibuvInv, LibuvDev
<1>4. TwoBlocks(p)' /\ Typing'
  BY <1>2, <1>3 DEF LibuvInv, TwoBlocks, Typing
<1>5. LibuvInv'
  BY <1>2, <1>3, <1>4, LibuvOnePoll
<1>6. poll[p].state = "started" /\ dev.ready[p] \subseteq poll[p].events
  BY <1>2 DEF LibuvInv, TwoBlocks, Typing
<1>7. dev.data[p] = "block"
  BY <1>6 DEF LibuvInv, TwoBlocks
<1>8. Contract!Dispatched(p, e)
  BY <1>1, <1>2, <1>6, <1>7 DEF Contract!Dispatched
<1>9. dev.ready[p] \in SUBSET Contract!Events
  BY DEF LibuvInv, LibuvDev, Events, Contract!Events
<1>10. e \in (SUBSET Contract!Events) \cup {{"error"}}
  BY <1>9
<1> QED
  BY <1>2, <1>5, <1>8, <1>10 DEF ContractStep, Contract!ContractNext

\* us_internal_loop_post frees what was stopped before the close callbacks come.
LEMMA LibuvCheck ==
  ASSUME LibuvInv, Libuv!Check
  PROVE  LibuvInv' /\ ContractStep
<1> DEFINE S == {p \in Polls : poll[p].state = "stopped"}
<1>1. /\ poll' = [p \in Polls |-> IF p \in S THEN Contract!NoPoll ELSE poll[p]]
      /\ dev' = [Libuv!FreePolls(dev, S) EXCEPT !.phase = "post"] /\ UNCHANGED <<timer, call>>
  BY DEF Libuv!Check, Libuv!NoPoll, Contract!NoPoll
<1>2. Contract!Freed(S) /\ S \in SUBSET Polls
  BY <1>1 DEF Contract!Freed
<1>3. /\ Typing'
      /\ \A p \in Polls : poll'[p] = IF p \in S THEN [state |-> "none", events |-> {}] ELSE poll[p]
  BY <1>2, FreedTyped DEF LibuvInv
<1>4. \A p \in S : Libuv!IsClosing(p) /\ dev.handle[p] = "closing" /\ dev.ready[p] = {}
  BY DEF LibuvInv, TwoBlocks, Typing, Libuv!IsClosing
<1>5. /\ LibuvDev(dev') /\ dev'.ready = dev.ready
      /\ \A p \in Polls : /\ dev'.handle[p] = dev.handle[p]
                          /\ dev'.data[p] = IF p \in S THEN "block" ELSE dev.data[p]
  <2> DEFINE handle == [p \in Polls |-> IF p \in S /\ ~Libuv!IsClosing(p) THEN "none" ELSE dev.handle[p]]
             data == [p \in Polls |-> IF p \in S /\ Libuv!IsClosing(p) THEN "block" ELSE dev.data[p]]
  <2>1. dev' = [[dev EXCEPT !.handle = handle, !.data = data] EXCEPT !.phase = "post"]
    BY <1>1 DEF Libuv!FreePolls
  <2>2. \A p \in Polls : handle[p] = dev.handle[p] /\ data[p] = IF p \in S THEN "block" ELSE dev.data[p]
    BY <1>4
  <2>3. /\ handle \in [Polls -> {"none", "raw", "open", "closing", "closed"}]
        /\ data \in [Polls -> {"null", "block"}]
    BY <2>2 DEF LibuvInv, LibuvDev
  <2> HIDE DEF handle, data
  <2>4. dev'.handle = handle /\ dev'.data = data /\ dev'.ready = dev.ready /\ LibuvDev(dev')
    BY <2>1, <2>3 DEF LibuvInv, LibuvDev
  <2> QED
    BY <2>2, <2>4
<1>6. ASSUME NEW p \in Polls PROVE TwoBlocks(p)'
  BY <1>3, <1>4, <1>5 DEF LibuvInv, TwoBlocks
<1>7. LibuvInv'
  BY <1>3, <1>5, <1>6 DEF LibuvInv
<1> QED
  BY <1>1, <1>2, <1>7 DEF ContractStep, Contract!ContractNext

\* The close callback finds the block of a poll that was freed before.
LEMMA LibuvCloseCb ==
  ASSUME LibuvInv, NEW p \in Polls, Libuv!CloseCb(p)
  PROVE  LibuvInv' /\ ContractStep
<1>1. dev.phase = "closing" /\ dev.handle[p] = "closing" /\ UNCHANGED <<poll, timer, call>>
      /\ dev' = [dev EXCEPT !.handle[p] = IF dev.data[p] = "null" THEN "closed" ELSE "none"]
  BY DEF Libuv!CloseCb, Libuv!CloseCbPoll
<1>2. poll[p].state = "none" /\ dev.data[p] = "block"
  BY <1>1 DEF LibuvInv, TwoBlocks, Typing
<1>3. /\ LibuvDev(dev') /\ dev'.handle[p] = "none" /\ dev'.phase = dev.phase
      /\ dev'.data = dev.data /\ dev'.ready = dev.ready
      /\ \A q \in Polls \ {p} : dev'.handle[q] = dev.handle[q]
  BY <1>1, <1>2 DEF LibuvInv, LibuvDev
<1>4. TwoBlocks(p)' /\ Typing'
  BY <1>1, <1>2, <1>3 DEF LibuvInv, TwoBlocks, Typing
<1>5. LibuvInv'
  BY <1>1, <1>3, <1>4, LibuvOnePoll
<1> QED
  BY <1>1, <1>5 DEF ContractStep, Contract!contractVars

\* The rest of an iteration.
LEMMA LibuvPhases ==
  ASSUME LibuvInv, Libuv!Closing \/ Libuv!CloseCbTimer \/ Libuv!Again
  PROVE  LibuvInv' /\ ContractStep
<1>1. UNCHANGED <<poll, timer, call>>
  BY DEF Libuv!Closing, Libuv!CloseCbTimer, Libuv!Again
<1>2. \/ dev' = [dev EXCEPT !.phase = "closing"] \/ dev' = [dev EXCEPT !.timer = "none"]
      \/ dev' = [dev EXCEPT !.phase = "poll"]
  BY DEF Libuv!Closing, Libuv!CloseCbTimer, Libuv!Again
<1>3. dev.phase # "poll"
  BY DEF Libuv!Closing, Libuv!CloseCbTimer, Libuv!Again
<1>4. \A p \in Polls : poll[p].state # "stopped"
  BY <1>3 DEF LibuvInv, TwoBlocks
<1>5. LibuvDev(dev') /\ dev'.handle = dev.handle /\ dev'.data = dev.data /\ dev'.ready = dev.ready
  BY <1>2 DEF LibuvInv, LibuvDev
<1> QED
  BY <1>1, <1>4, <1>5, LibuvNoPoll DEF ContractStep, Contract!contractVars

\* The calls and callbacks of timers.
LEMMA LibuvTimers ==
  ASSUME LibuvInv,
         \/ Libuv!Return \/ Libuv!CreateTimer \/ Libuv!CloseTimer
         \/ \E ms \in {0, 1} : Libuv!SetTimer(ms) \/ Libuv!TimerCb(ms)
  PROVE  LibuvInv' /\ ContractStep
<1>1. poll' = poll
  BY DEF Libuv!Return, Libuv!CreateTimer, Libuv!CloseTimer, Libuv!SetTimer, Libuv!TimerCb
<1>2. dev' = dev \/ dev' = [dev EXCEPT !.timer = "open"] \/ dev' = [dev EXCEPT !.timer = "closing"]
  BY DEF Libuv!Return, Libuv!CreateTimer, Libuv!CloseTimer, Libuv!SetTimer, Libuv!TimerCb
<1>3. /\ LibuvDev(dev') /\ dev'.handle = dev.handle /\ dev'.data = dev.data /\ dev'.ready = dev.ready
      /\ dev'.phase = dev.phase
  BY <1>2 DEF LibuvInv, LibuvDev
<1>4. LibuvInv'
  BY <1>1, <1>3, LibuvNoPoll
<1>5. ContractStep
  <2>1. CASE Libuv!Return
    BY <2>1 DEF Libuv!Return, Libuv!Returned, Libuv!NoCall, ContractStep,
       Contract!ContractNext, Contract!Returned, Contract!NoCall
  <2>2. CASE Libuv!CreateTimer \/ Libuv!CloseTimer
    BY <2>2 DEF Libuv!CreateTimer, Libuv!CloseTimer, Libuv!TimerTo, ContractStep,
       Contract!ContractNext, Contract!TimerTo
  <2>3. ASSUME NEW ms \in {0, 1}, Libuv!SetTimer(ms) PROVE ContractStep
    BY <2>3 DEF Libuv!SetTimer, Libuv!TimerTo, ContractStep, Contract!ContractNext, Contract!TimerTo
  <2>4. ASSUME NEW ms \in {0, 1}, Libuv!TimerCb(ms) PROVE ContractStep
    BY <2>4 DEF Libuv!TimerCb, Libuv!Fired, Libuv!NoCall, ContractStep, Contract!ContractNext,
       Contract!Fired, Contract!NoCall
  <2> QED
    BY <2>1, <2>2, <2>3, <2>4
<1> QED
  BY <1>4, <1>5

\* Every step of libuv.
LEMMA LibuvStep ==
  ASSUME LibuvInv, Supported, Libuv!LibuvNext
  PROVE  LibuvInv' /\ ContractStep
<1>1. Libuv!Events = Events
  BY DEF Libuv!Events, Events
<1> QED
  BY <1>1, LibuvCreatePoll, LibuvResize, LibuvStop, LibuvPollCb, LibuvCloseCb, LibuvStart,
     LibuvChange, LibuvPoll, LibuvCheck, LibuvPhases, LibuvTimers DEF Libuv!LibuvNext

\* libuv at the start.
LEMMA LibuvStarts ==
  ASSUME Libuv!LibuvInit
  PROVE  LibuvInv /\ Contract!ContractInit
<1>1. Contract!ContractInit
  BY DEF Libuv!LibuvInit, Libuv!ContractInit, Contract!ContractInit, Libuv!NoPoll, Contract!NoPoll,
     Libuv!NoCall, Contract!NoCall
<1>2. \A p \in Polls : poll[p] = [state |-> "none", events |-> {}]
  BY <1>1 DEF Contract!ContractInit, Contract!NoPoll
<1>3. dev = [phase |-> "poll", handle |-> [p \in Polls |-> "none"],
             data |-> [p \in Polls |-> "null"], ready |-> [p \in Polls |-> {}], timer |-> "none"]
  BY DEF Libuv!LibuvInit
<1>4. LibuvDev(dev) /\ \A p \in Polls : dev.handle[p] = "none" /\ dev.ready[p] = {}
  BY <1>3 DEF LibuvDev
<1>5. Typing
  BY <1>1, InitTyped
<1>6. ASSUME NEW p \in Polls PROVE TwoBlocks(p)
  <2>1. poll[p].state = "none" /\ poll[p].events = {}
    BY <1>2
  <2> QED
    BY <1>4, <2>1 DEF TwoBlocks
<1> QED
  BY <1>1, <1>4, <1>5, <1>6 DEF LibuvInv

-----------------------------------------------------------------------------
(* Boost.Asio. *)

AsioDev(d) ==
  /\ d = [waits |-> d.waits, dead |-> d.dead, polls |-> d.polls, nr |-> d.nr, p |-> d.p]
  /\ d.nr = [o \in Asio!Owners |-> d.nr[o]]
  /\ d.p = [o \in Asio!Owners |-> "block"]
  /\ d.waits \in [DOMAIN d.waits -> Nat \ {0}]
  /\ \A w \in DOMAIN d.waits :
       /\ w = [of |-> w.of, event |-> w.event, nr |-> w.nr, ready |-> w.ready]
       /\ w.of \in Asio!Owners /\ w.ready \in BOOLEAN

NoWaits(d, o) == \A w \in DOMAIN d.waits : w.of # o

\* The waits of o whose handlers dispatch are for events in E.
Waiting(d, o, E) == \A w \in DOMAIN d.waits : w.of = o /\ w.nr = d.nr[o] => w.event \in E

PollWaits(p) ==
  /\ poll[p].state \in {"none", "made"} => NoWaits(dev, p)
  /\ poll[p].state = "started" => Waiting(dev, p, poll[p].events \cup {"error"})
  /\ poll[p].state = "stopped" => Waiting(dev, p, {})

TimerWaits ==
  /\ timer \in {"none", "idle", "set"}
  /\ timer = "none" => NoWaits(dev, "timer")
  /\ timer = "idle" => Waiting(dev, "timer", {})

AsioInv == Typing /\ AsioDev(dev) /\ TimerWaits /\ \A p \in Polls : PollWaits(p)

\* From d to n, only waits of o are added, and only its count changes.
Touches(d, n, o) ==
  /\ AsioDev(n)
  /\ \A q \in Asio!Owners \ {o} : n.nr[q] = d.nr[q]
  /\ \A w \in DOMAIN n.waits : w.of # o => w \in DOMAIN d.waits

\* One such step after the other.
LEMMA TouchesTwice ==
  ASSUME NEW a, NEW b, NEW c, NEW o, Touches(a, b, o), Touches(b, c, o)
  PROVE  Touches(a, c, o)
BY DEF Touches

\* A step that touches one poll.
LEMMA TouchesOnePoll ==
  ASSUME AsioInv, Typing', NEW p \in Polls, \A q \in Polls \ {p} : poll'[q] = poll[q],
         timer' = timer, Touches(dev, dev', p), PollWaits(p)'
  PROVE  AsioInv'
<1>1. TimerWaits'
  BY TimerAssumption DEF AsioInv, TimerWaits, Touches, NoWaits, Waiting, Asio!Owners
<1>2. ASSUME NEW q \in Polls \ {p} PROVE PollWaits(q)'
  <2>1. PollWaits(q) /\ poll'[q] = poll[q] /\ q \in Asio!Owners \ {p}
    BY DEF AsioInv, Asio!Owners
  <2> QED
    BY <2>1 DEF PollWaits, Touches, NoWaits, Waiting
<1> QED
  BY <1>1, <1>2 DEF AsioInv, Touches

\* A step that touches the timer.
LEMMA TouchesTimer ==
  ASSUME AsioInv, poll' = poll, Touches(dev, dev', "timer"), TimerWaits'
  PROVE  AsioInv'
<1>1. ASSUME NEW q \in Polls PROVE PollWaits(q)'
  <2>1. PollWaits(q) /\ poll'[q] = poll[q] /\ q \in Asio!Owners \ {"timer"}
    BY TimerAssumption DEF AsioInv, Asio!Owners
  <2> QED
    BY <2>1 DEF PollWaits, Touches, NoWaits, Waiting
<1> QED
  BY <1>1 DEF AsioInv, Touches, Typing

\* Taking a wait.
LEMMA WaitForTouches ==
  ASSUME NEW d, AsioDev(d), NEW o \in Asio!Owners, NEW E, NEW e \in E, Waiting(d, o, E)
  PROVE  Touches(d, Asio!WaitFor(d, o, e), o) /\ Waiting(Asio!WaitFor(d, o, e), o, E)
<1> DEFINE n == Asio!WaitFor(d, o, e)
           x == [of |-> o, event |-> e, nr |-> d.nr[o], ready |-> FALSE]
<1>1. n = [d EXCEPT !.waits = Asio!BagAdd(d.waits, x), !.polls = IF o = "timer" THEN d.polls ELSE d.polls + 1]
  BY DEF Asio!WaitFor, AsioDev
<1>2. /\ n = [waits |-> n.waits, dead |-> n.dead, polls |-> n.polls, nr |-> n.nr, p |-> n.p]
      /\ n.waits = Asio!BagAdd(d.waits, x) /\ n.nr = d.nr /\ n.p = d.p
  BY <1>1 DEF AsioDev
<1>3. x = [of |-> x.of, event |-> x.event, nr |-> x.nr, ready |-> x.ready]
      /\ x.of = o /\ x.event = e /\ x.nr = d.nr[o] /\ x.ready = FALSE
  OBVIOUS
<1> HIDE DEF n, x
<1>4. /\ DOMAIN Asio!BagAdd(d.waits, x) = DOMAIN d.waits \cup {x}
      /\ Asio!BagAdd(d.waits, x) \in [DOMAIN Asio!BagAdd(d.waits, x) -> Nat \ {0}]
  BY DEF Asio!BagAdd, AsioDev
<1>5. AsioDev(n)
  BY <1>2, <1>3, <1>4 DEF AsioDev
<1>6. Touches(d, n, o) /\ Waiting(n, o, E)
  BY <1>2, <1>3, <1>4, <1>5 DEF Touches, Waiting
<1> QED
  BY <1>6 DEF n

\* Taking the waits of a poll.
LEMMA PollForTouches ==
  ASSUME NEW d, AsioDev(d), NEW p \in Polls, NEW e \in SUBSET Events, Waiting(d, p, e \cup {"error"})
  PROVE  Touches(d, Asio!PollFor(d, p, e), p) /\ Waiting(Asio!PollFor(d, p, e), p, e \cup {"error"})
<1> DEFINE E == e \cup {"error"}
           A == Asio!WaitFor(d, p, "error")
           R == IF "in" \in e THEN Asio!WaitFor(A, p, "in") ELSE A
           W == IF "out" \in e THEN Asio!WaitFor(R, p, "out") ELSE R
<1>1. Asio!PollFor(d, p, e) = W
  BY DEF Asio!PollFor
<1>2. p \in Asio!Owners /\ "error" \in E /\ ("in" \in e => "in" \in E) /\ ("out" \in e => "out" \in E)
  BY DEF Asio!Owners
<1>3. Waiting(d, p, E)
  OBVIOUS
<1> HIDE DEF E
<1>4. Touches(d, A, p) /\ Waiting(A, p, E) /\ AsioDev(A)
  BY <1>2, <1>3, WaitForTouches DEF Touches
<1> HIDE DEF A
<1>5. Touches(d, R, p) /\ Waiting(R, p, E) /\ AsioDev(R)
  <2>1. CASE "in" \in e
    <3>1. Touches(A, R, p) /\ Waiting(R, p, E)
      BY <1>2, <1>4, <2>1, WaitForTouches
    <3> QED
      BY <1>4, <3>1, TouchesTwice DEF Touches
  <2>2. CASE "in" \notin e
    BY <1>4, <2>2
  <2> QED
    BY <2>1, <2>2
<1> HIDE DEF R
<1>6. Touches(d, W, p) /\ Waiting(W, p, E)
  <2>1. CASE "out" \in e
    <3>1. Touches(R, W, p) /\ Waiting(W, p, E)
      BY <1>2, <1>5, <2>1, WaitForTouches
    <3> QED
      BY <1>5, <3>1, TouchesTwice
  <2>2. CASE "out" \notin e
    BY <1>5, <2>2
  <2> QED
    BY <2>1, <2>2
<1> QED
  BY <1>1, <1>6 DEF E

\* Ending waits.
LEMMA KillTouches ==
  ASSUME NEW d, AsioDev(d), NEW W, W \subseteq DOMAIN d.waits, NEW o \in Asio!Owners
  PROVE  /\ Touches(d, Asio!Kill(d, W), o) /\ Asio!Kill(d, W).nr = d.nr
         /\ DOMAIN Asio!Kill(d, W).waits = DOMAIN d.waits \ W
<1> DEFINE n == Asio!Kill(d, W)
<1>1. /\ n = [waits |-> n.waits, dead |-> n.dead, polls |-> n.polls, nr |-> n.nr, p |-> n.p]
      /\ n.nr = d.nr /\ n.p = d.p
  <2> DEFINE V == Asio!(-)(d.waits, Asio!Of(d, W))
             D == d.dead + Asio!BagCardinality(Asio!Of(d, {w \in W : w.of # "timer"}))
  <2>1. n = [d EXCEPT !.waits = V, !.dead = D]
    BY DEF Asio!Kill
  <2> HIDE DEF n, V, D
  <2> QED
    BY <2>1 DEF AsioDev
<1>2. DOMAIN n.waits = DOMAIN d.waits \ W /\ \A w \in DOMAIN n.waits : n.waits[w] = d.waits[w]
  BY DEF Asio!Kill, Asio!Of, Asio!(-), AsioDev
<1>3. n.waits \in [DOMAIN n.waits -> Nat \ {0}]
  <2>1. n.waits = [w \in DOMAIN n.waits |-> n.waits[w]]
    BY DEF Asio!Kill, Asio!Of, Asio!(-), AsioDev
  <2>2. \A w \in DOMAIN n.waits : n.waits[w] \in Nat \ {0}
    BY <1>2 DEF AsioDev
  <2> HIDE DEF n
  <2> QED
    BY <2>1, <2>2
<1> HIDE DEF n
<1>4. AsioDev(n)
  BY <1>1, <1>2, <1>3 DEF AsioDev
<1> QED
  BY <1>1, <1>2, <1>4 DEF Touches, n

\* Cancelling leaves the waits whose handlers are queued.
LEMMA CancelTouches ==
  ASSUME NEW d, AsioDev(d), NEW o \in Asio!Owners
  PROVE  /\ Touches(d, Asio!Cancel(d, o), o) /\ Asio!Cancel(d, o).nr = d.nr
         /\ \A w \in DOMAIN Asio!Cancel(d, o).waits : w \in DOMAIN d.waits /\ (w.of = o => w.ready)
BY KillTouches DEF Asio!Cancel, Asio!BagToSet

\* Freeing leaves none.
LEMMA DeleteTouches ==
  ASSUME NEW d, AsioDev(d), NEW o \in Asio!Owners
  PROVE  Touches(d, Asio!Delete(d, o), o) /\ NoWaits(Asio!Delete(d, o), o)
BY KillTouches DEF Asio!Delete, Asio!BagToSet, NoWaits

\* A handler is taken from the queue.
LEMMA TakenTouches ==
  ASSUME NEW d, AsioDev(d), NEW w \in DOMAIN d.waits, NEW o \in Asio!Owners
  PROVE  /\ Touches(d, Asio!Taken(d, w), o) /\ Asio!Taken(d, w).nr = d.nr
         /\ DOMAIN Asio!Taken(d, w).waits \subseteq DOMAIN d.waits
<1> DEFINE n == Asio!Taken(d, w)
<1>1. /\ n = [waits |-> n.waits, dead |-> n.dead, polls |-> n.polls, nr |-> n.nr, p |-> n.p]
      /\ n.nr = d.nr /\ n.p = d.p /\ n.waits = Asio!BagRemove(d.waits, w)
  <2> DEFINE V == Asio!BagRemove(d.waits, w)
             P == IF w.of = "timer" THEN d.polls ELSE d.polls - 1
  <2>1. n = [d EXCEPT !.waits = V, !.polls = P]
    BY DEF Asio!Taken
  <2> HIDE DEF n, V, P
  <2>2. n.waits = V
    BY <2>1 DEF AsioDev
  <2> QED
    BY <2>1, <2>2 DEF AsioDev, V
<1> HIDE DEF n
<1>2. /\ DOMAIN Asio!BagRemove(d.waits, w) \subseteq DOMAIN d.waits
      /\ Asio!BagRemove(d.waits, w) \in [DOMAIN Asio!BagRemove(d.waits, w) -> Nat \ {0}]
  BY DEF Asio!BagRemove, AsioDev
<1>3. AsioDev(n)
  BY <1>1, <1>2 DEF AsioDev
<1> QED
  BY <1>1, <1>2, <1>3 DEF Touches, n

\* A poll that gets a new count has no wait that counts, once what is pending is
\* cancelled: no handler that is queued has that count.
LEMMA RecountTouches ==
  ASSUME AsioDev(dev), NEW o \in Asio!Owners, Asio!Bounded(o)
  PROVE  LET n == Asio!Cancel([dev EXCEPT !.nr[o] = Asio!NrNext(o)], o)
         IN  Touches(dev, n, o) /\ Waiting(n, o, {})
<1> DEFINE r == [dev EXCEPT !.nr[o] = Asio!NrNext(o)]
           n == Asio!Cancel(r, o)
           c == Asio!NrNext(o)
<1> HIDE DEF c
<1>1. r = [dev EXCEPT !.nr = [@ EXCEPT ![o] = c]]
  BY DEF c
<1> HIDE DEF r
<1>2. /\ r = [waits |-> r.waits, dead |-> r.dead, polls |-> r.polls, nr |-> r.nr, p |-> r.p]
      /\ r.nr = [dev.nr EXCEPT ![o] = c] /\ r.p = dev.p /\ r.waits = dev.waits
  BY <1>1 DEF AsioDev
<1>3. r.nr = [q \in Asio!Owners |-> r.nr[q]] /\ r.nr[o] = c
      /\ \A q \in Asio!Owners \ {o} : r.nr[q] = dev.nr[q]
  BY <1>2 DEF AsioDev
<1>4. AsioDev(r)
  BY <1>2, <1>3 DEF AsioDev
<1>5. Touches(dev, r, o)
  BY <1>2, <1>3, <1>4 DEF Touches
<1>6. /\ Touches(r, n, o) /\ n.nr = r.nr
      /\ \A w \in DOMAIN n.waits : w \in DOMAIN r.waits /\ (w.of = o => w.ready)
  BY <1>4, CancelTouches
<1> HIDE DEF n
<1>7. \A w \in DOMAIN dev.waits : w.of = o /\ w.ready => w.nr # c
  BY DEF Asio!Bounded, Asio!Waits, Asio!BagToSet, c
<1>8. Waiting(n, o, {})
  BY <1>2, <1>3, <1>6, <1>7 DEF Waiting
<1>9. Touches(dev, n, o)
  BY <1>5, <1>6, TouchesTwice
<1> QED
  BY <1>8, <1>9 DEF n, r

\* A poll that is made has no wait.
LEMMA AsioCreatePoll ==
  ASSUME AsioInv, NEW p \in Polls, Asio!CreatePoll(p)
  PROVE  AsioInv' /\ ContractStep
<1>1. Contract!Made(p) /\ UNCHANGED <<timer, call>>
      /\ dev' = [dev EXCEPT !.nr[p] = 0, !.p[p] = "block"]
  BY DEF Asio!CreatePoll, Asio!Made, Contract!Made
<1>2. /\ Typing' /\ poll'[p] = [state |-> "made", events |-> {}]
      /\ \A q \in Polls \ {p} : poll'[q] = poll[q]
  BY <1>1, MadeTyped DEF AsioInv
<1>3. NoWaits(dev, p)
  BY <1>1 DEF Contract!Made, AsioInv, PollWaits
<1>4. /\ dev' = [waits |-> dev.waits, dead |-> dev.dead, polls |-> dev.polls,
                 nr |-> [dev.nr EXCEPT ![p] = 0], p |-> [dev.p EXCEPT ![p] = "block"]]
  BY <1>1 DEF AsioInv, AsioDev
<1>5. /\ dev'.nr = [q \in Asio!Owners |-> dev'.nr[q]] /\ dev'.p = dev.p
      /\ \A q \in Asio!Owners \ {p} : dev'.nr[q] = dev.nr[q]
  BY <1>4 DEF AsioInv, AsioDev, Asio!Owners
<1>6. Touches(dev, dev', p) /\ NoWaits(dev', p)
  BY <1>3, <1>4, <1>5 DEF AsioInv, AsioDev, Touches, NoWaits
<1>7. PollWaits(p)'
  BY <1>2, <1>6 DEF PollWaits
<1>8. AsioInv'
  BY <1>1, <1>2, <1>6, <1>7, TouchesOnePoll
<1> QED
  BY <1>1, <1>8 DEF ContractStep, Contract!ContractNext

\* Starting takes its waits.
LEMMA AsioStart ==
  ASSUME AsioInv, NEW p \in Polls, NEW e \in SUBSET Events, Asio!Start(p, e)
  PROVE  AsioInv' /\ ContractStep
<1>1. Contract!Started(p, e) /\ UNCHANGED <<timer, call>> /\ dev' = Asio!PollFor(dev, p, e)
  BY DEF Asio!Start, Asio!Started, Contract!Started
<1>2. /\ Typing' /\ poll'[p] = [state |-> "started", events |-> e]
      /\ \A q \in Polls \ {p} : poll'[q] = poll[q]
  BY <1>1, StartedTyped DEF AsioInv
<1>3. Waiting(dev, p, e \cup {"error"})
  BY <1>1 DEF Contract!Started, AsioInv, PollWaits, NoWaits, Waiting
<1>4. Touches(dev, dev', p) /\ Waiting(dev', p, e \cup {"error"})
  BY <1>1, <1>3, PollForTouches DEF AsioInv
<1>5. PollWaits(p)'
  BY <1>2, <1>4 DEF PollWaits
<1>6. AsioInv'
  BY <1>1, <1>2, <1>4, <1>5, TouchesOnePoll
<1> QED
  BY <1>1, <1>6 DEF ContractStep, Contract!ContractNext, Contract!Events, Events

\* Changing takes them anew, with a new count.
LEMMA AsioChange ==
  ASSUME AsioInv, NEW p \in Polls, NEW e \in SUBSET Events, Asio!Change(p, e)
  PROVE  AsioInv' /\ ContractStep
<1> DEFINE n == Asio!Cancel([dev EXCEPT !.nr[p] = Asio!NrNext(p)], p)
<1>1. /\ Contract!Changed(p, e) /\ UNCHANGED <<timer, call>> /\ Asio!Bounded(p)
      /\ dev' = Asio!PollFor(n, p, e)
  BY DEF Asio!Change, Asio!Changed, Contract!Changed, Asio!Recount
<1>2. /\ Typing' /\ poll'[p] = [state |-> "started", events |-> e]
      /\ \A q \in Polls \ {p} : poll'[q] = poll[q]
  BY <1>1, ChangedTyped DEF AsioInv
<1>3. Touches(dev, n, p) /\ Waiting(n, p, {})
  BY <1>1, RecountTouches DEF AsioInv, Asio!Owners
<1> HIDE DEF n
<1>4. Touches(n, dev', p) /\ Waiting(dev', p, e \cup {"error"})
  <2>1. Waiting(n, p, e \cup {"error"}) /\ AsioDev(n)
    BY <1>3 DEF Waiting, Touches
  <2> QED
    BY <1>1, <2>1, PollForTouches
<1>5. PollWaits(p)' /\ Touches(dev, dev', p)
  BY <1>2, <1>3, <1>4, TouchesTwice DEF PollWaits
<1>6. AsioInv'
  BY <1>1, <1>2, <1>5, TouchesOnePoll
<1> QED
  BY <1>1, <1>6 DEF ContractStep, Contract!ContractNext, Contract!Events, Events

\* Stopping leaves none that counts.
LEMMA AsioStop ==
  ASSUME AsioInv, NEW p \in Polls, Asio!Stop(p)
  PROVE  AsioInv' /\ ContractStep
<1> DEFINE n == Asio!Cancel([dev EXCEPT !.nr[p] = Asio!NrNext(p)], p)
<1>1. /\ Contract!Stopped(p) /\ UNCHANGED <<timer, call>> /\ Asio!Bounded(p) /\ dev' = n
  BY DEF Asio!Stop, Asio!Stopped, Contract!Stopped, Asio!Recount
<1>2. /\ Typing' /\ poll'[p] = [state |-> "stopped", events |-> {}]
      /\ \A q \in Polls \ {p} : poll'[q] = poll[q]
  BY <1>1, StoppedTyped DEF AsioInv
<1>3. Touches(dev, n, p) /\ Waiting(n, p, {})
  BY <1>1, RecountTouches DEF AsioInv, Asio!Owners
<1> HIDE DEF n
<1>4. PollWaits(p)'
  BY <1>1, <1>2, <1>3 DEF PollWaits
<1>5. AsioInv'
  BY <1>1, <1>2, <1>3, <1>4, TouchesOnePoll
<1> QED
  BY <1>1, <1>5 DEF ContractStep, Contract!ContractNext

\* Freeing leaves none.
LEMMA AsioFree ==
  ASSUME AsioInv, NEW p \in Polls, Asio!Free(p)
  PROVE  AsioInv' /\ ContractStep
<1>1. Contract!Freed({p}) /\ UNCHANGED <<timer, call>> /\ dev' = Asio!Delete(dev, p)
  BY DEF Asio!Free, Asio!Freed, Contract!Freed, Asio!NoPoll, Contract!NoPoll
<1>2. /\ Typing' /\ poll'[p] = [state |-> "none", events |-> {}]
      /\ \A q \in Polls \ {p} : poll'[q] = poll[q]
  BY <1>1, FreedTyped DEF AsioInv
<1>3. Touches(dev, dev', p) /\ NoWaits(dev', p)
  BY <1>1, DeleteTouches DEF AsioInv, Asio!Owners
<1>4. PollWaits(p)'
  BY <1>2, <1>3 DEF PollWaits
<1>5. AsioInv'
  BY <1>1, <1>2, <1>3, <1>4, TouchesOnePoll
<1> QED
  BY <1>1, <1>5 DEF ContractStep, Contract!ContractNext

\* Resizing does nothing: the block stays.
LEMMA AsioResize ==
  ASSUME AsioInv, NEW p \in Polls, Asio!Resize(p)
  PROVE  AsioInv' /\ ContractStep
<1>1. UNCHANGED <<poll, timer, call>> /\ dev' = [dev EXCEPT !.p[p] = "block"]
  BY DEF Asio!Resize
<1>2. dev' = dev
  BY <1>1 DEF AsioInv, AsioDev
<1> QED
  BY <1>1, <1>2 DEF AsioInv, Typing, TimerWaits, PollWaits, ContractStep, Contract!contractVars

\* A step that leaves the counts and no more than the waits that there were, or
\* copies of them that are ready, leaves the rest as it was.
LEMMA AsioFewer ==
  ASSUME AsioInv, poll' = poll, timer' = timer, AsioDev(dev'), dev'.nr = dev.nr,
         \A x \in DOMAIN dev'.waits : \E w \in DOMAIN dev.waits :
           x.of = w.of /\ x.event = w.event /\ x.nr = w.nr
  PROVE  AsioInv'
<1>1. \A o : NoWaits(dev, o) => NoWaits(dev', o)
  BY DEF NoWaits
<1>2. \A o, E : Waiting(dev, o, E) => Waiting(dev', o, E)
  BY DEF Waiting
<1>3. TimerWaits'
  BY <1>1, <1>2 DEF AsioInv, TimerWaits
<1>4. ASSUME NEW p \in Polls PROVE PollWaits(p)'
  BY <1>1, <1>2 DEF AsioInv, PollWaits
<1> QED
  BY <1>3, <1>4 DEF AsioInv, Typing

\* A wait that ended, as a record.
LEMMA Readied ==
  ASSUME NEW o, NEW e, NEW c, NEW b, NEW w, w = [of |-> o, event |-> e, nr |-> c, ready |-> b]
  PROVE  [w EXCEPT !.ready = TRUE] = [of |-> o, event |-> e, nr |-> c, ready |-> TRUE]
<1> DEFINE r == [w EXCEPT !.ready = TRUE]
<1>1. DOMAIN r = {"of", "event", "nr", "ready"} /\ r = [f \in DOMAIN r |-> r[f]]
  OBVIOUS
<1>2. r["of"] = o /\ r["event"] = e /\ r["nr"] = c /\ r["ready"] = TRUE
  OBVIOUS
<1> HIDE DEF r
<1>3. r = [of |-> o, event |-> e, nr |-> c, ready |-> TRUE]
  BY <1>1, <1>2
<1> QED
  BY <1>3 DEF r

\* A wait ends.
LEMMA AsioReady ==
  ASSUME AsioInv, NEW w \in DOMAIN dev.waits, Asio!Ready(w)
  PROVE  AsioInv' /\ ContractStep
<1> DEFINE r == [w EXCEPT !.ready = TRUE]
           V == Asio!BagRemove(dev.waits, w)
           U == Asio!BagAdd(V, r)
<1>1. UNCHANGED <<poll, timer, call>> /\ dev' = [dev EXCEPT !.waits = U]
  BY DEF Asio!Ready
<1>2. /\ r = [of |-> r.of, event |-> r.event, nr |-> r.nr, ready |-> r.ready]
      /\ r.of = w.of /\ r.event = w.event /\ r.nr = w.nr /\ r.ready = TRUE
  <2>1. w = [of |-> w.of, event |-> w.event, nr |-> w.nr, ready |-> w.ready]
    BY DEF AsioInv, AsioDev
  <2>2. r = [of |-> w.of, event |-> w.event, nr |-> w.nr, ready |-> TRUE]
    BY <2>1, Readied
  <2> HIDE DEF r
  <2> QED
    BY <2>2
<1> HIDE DEF r
<1>3. DOMAIN V \subseteq DOMAIN dev.waits /\ V \in [DOMAIN V -> Nat \ {0}]
  BY DEF Asio!BagRemove, AsioInv, AsioDev
<1> HIDE DEF V
<1>4. DOMAIN U = DOMAIN V \cup {r} /\ U \in [DOMAIN U -> Nat \ {0}]
  BY <1>3 DEF Asio!BagAdd
<1> HIDE DEF U
<1>5. /\ dev' = [waits |-> dev'.waits, dead |-> dev'.dead, polls |-> dev'.polls, nr |-> dev'.nr, p |-> dev'.p]
      /\ dev'.waits = U /\ dev'.nr = dev.nr /\ dev'.p = dev.p
  BY <1>1 DEF AsioInv, AsioDev
<1>6. AsioDev(dev')
  BY <1>2, <1>3, <1>4, <1>5 DEF AsioInv, AsioDev
<1>7. AsioInv'
  BY <1>1, <1>2, <1>3, <1>4, <1>5, <1>6, AsioFewer
<1> QED
  BY <1>1, <1>7 DEF ContractStep, Contract!contractVars

\* A handler whose count has changed does nothing.
LEMMA AsioStale ==
  ASSUME AsioInv, NEW w \in DOMAIN dev.waits, Asio!Stale(w)
  PROVE  AsioInv' /\ ContractStep
<1>1. UNCHANGED <<poll, timer, call>> /\ dev' = Asio!Taken(dev, w)
  BY DEF Asio!Stale
<1>2. AsioDev(dev') /\ dev'.nr = dev.nr /\ DOMAIN dev'.waits \subseteq DOMAIN dev.waits
  BY <1>1, TakenTouches DEF AsioInv, Touches, Asio!Owners
<1>3. AsioInv'
  BY <1>1, <1>2, AsioFewer
<1> QED
  BY <1>1, <1>3 DEF ContractStep, Contract!contractVars

\* Nor does one that was aborted.
LEMMA AsioDead ==
  ASSUME AsioInv, Asio!Dead
  PROVE  AsioInv' /\ ContractStep
<1>1. UNCHANGED <<poll, timer, call>> /\ dev' = [dev EXCEPT !.dead = dev.dead - 1, !.polls = dev.polls - 1]
  BY DEF Asio!Dead
<1>2. AsioDev(dev') /\ dev'.nr = dev.nr /\ dev'.waits = dev.waits
  BY <1>1 DEF AsioInv, AsioDev
<1>3. AsioInv'
  BY <1>1, <1>2, AsioFewer
<1> QED
  BY <1>1, <1>3 DEF ContractStep, Contract!contractVars

\* A handler whose count is the poll's is of a poll that is started, and of an
\* event the poll is polled for.
LEMMA AsioHandler ==
  ASSUME AsioInv, NEW w \in DOMAIN dev.waits, Asio!Handler(w)
  PROVE  AsioInv' /\ ContractStep
<1>1. PICK e \in {"error", w.event} :
        call' = [who |-> IF dev.p[w.of] = "block" THEN w.of ELSE NULL, events |-> {e}]
  BY DEF Asio!Handler
<1> DEFINE n == Asio!Taken(dev, w)
<1>2. /\ call = Contract!NoCall /\ w.nr = dev.nr[w.of] /\ w.of # "timer" /\ UNCHANGED <<poll, timer>>
      /\ dev' = Asio!WaitFor(n, w.of, w.event)
  BY DEF Asio!Handler, Asio!Current, Asio!NoCall, Contract!NoCall
<1>3. w.of \in Polls /\ w.of \in Asio!Owners /\ dev.p[w.of] = "block"
  BY <1>2 DEF AsioInv, AsioDev, Asio!Owners
<1> DEFINE p == w.of
           E == poll[p].events \cup {"error"}
<1>4. poll[p].state = "started" /\ Waiting(dev, p, E) /\ w.event \in E
  <2>1. PollWaits(p) /\ poll[p].state \in {"none", "made", "started", "stopped"}
    BY <1>3 DEF AsioInv, Typing
  <2>2. poll[p].state = "started"
    BY <1>2, <2>1 DEF PollWaits, NoWaits, Waiting
  <2>3. Waiting(dev, p, E)
    BY <2>1, <2>2 DEF PollWaits
  <2> QED
    BY <1>2, <2>2, <2>3 DEF Waiting
<1>5. Touches(dev, n, p) /\ n.nr = dev.nr /\ DOMAIN n.waits \subseteq DOMAIN dev.waits
  BY <1>3, TakenTouches DEF AsioInv
<1> HIDE DEF n
<1>6. AsioDev(n) /\ Waiting(n, p, E)
  BY <1>4, <1>5 DEF Touches, Waiting
<1>7. Touches(n, dev', p) /\ Waiting(dev', p, E)
  <2> HIDE DEF E
  <2> QED
    BY <1>2, <1>3, <1>4, <1>6, WaitForTouches
<1>8. Touches(dev, dev', p)
  BY <1>5, <1>7, TouchesTwice
<1>9. PollWaits(p)'
  BY <1>2, <1>4, <1>7 DEF PollWaits
<1>10. AsioInv'
  <2>1. Typing'
    BY <1>2 DEF AsioInv, Typing
  <2> QED
    BY <1>2, <1>3, <1>8, <1>9, <2>1, TouchesOnePoll
<1>11. {e} = {"error"} \/ {e} \subseteq poll[p].events
  BY <1>4
<1>12. Contract!Dispatched(p, {e})
  BY <1>1, <1>2, <1>3, <1>4, <1>11 DEF Contract!Dispatched
<1>13. {e} \in (SUBSET Contract!Events) \cup {{"error"}}
  BY <1>3, <1>11 DEF AsioInv, Typing, Events, Contract!Events
<1> QED
  BY <1>2, <1>3, <1>10, <1>12, <1>13 DEF ContractStep, Contract!ContractNext

\* Taking a wait for any event.
LEMMA AnyWait ==
  ASSUME NEW d, AsioDev(d), NEW o \in Asio!Owners, NEW e
  PROVE  Touches(d, Asio!WaitFor(d, o, e), o)
<1> DEFINE E == {w.event : w \in DOMAIN d.waits} \cup {e}
<1>1. e \in E /\ Waiting(d, o, E)
  BY DEF Waiting
<1> HIDE DEF E
<1> QED
  BY <1>1, WaitForTouches

\* Setting a timer, by the library or by the handler of one that repeats.
LEMMA AnyTimer ==
  ASSUME NEW d, AsioDev(d)
  PROVE  Touches(d, Asio!WaitFor(Asio!Cancel(d, "timer"), "timer", "timeout"), "timer")
<1>1. "timer" \in Asio!Owners
  BY DEF Asio!Owners
<1>2. Touches(d, Asio!Cancel(d, "timer"), "timer")
  BY <1>1, CancelTouches
<1>3. AsioDev(Asio!Cancel(d, "timer"))
  BY <1>2 DEF Touches
<1>4. Touches(Asio!Cancel(d, "timer"), Asio!WaitFor(Asio!Cancel(d, "timer"), "timer", "timeout"), "timer")
  BY <1>1, <1>3, AnyWait
<1> QED
  BY <1>2, <1>4, TouchesTwice

\* The timer is made.
LEMMA AsioCreateTimer ==
  ASSUME AsioInv, Asio!CreateTimer
  PROVE  AsioInv' /\ ContractStep
<1>1. /\ timer = "none" /\ timer' = "idle" /\ UNCHANGED <<poll, call>>
      /\ dev' = [dev EXCEPT !.nr["timer"] = 0]
  BY DEF Asio!CreateTimer, Asio!TimerTo
<1>2. NoWaits(dev, "timer")
  BY <1>1 DEF AsioInv, TimerWaits
<1>3. dev' = [waits |-> dev.waits, dead |-> dev.dead, polls |-> dev.polls,
              nr |-> [dev.nr EXCEPT !["timer"] = 0], p |-> dev.p]
  BY <1>1 DEF AsioInv, AsioDev
<1>4. /\ dev'.nr = [q \in Asio!Owners |-> dev'.nr[q]]
      /\ \A q \in Asio!Owners \ {"timer"} : dev'.nr[q] = dev.nr[q]
  BY <1>3 DEF AsioInv, AsioDev, Asio!Owners
<1>5. Touches(dev, dev', "timer") /\ NoWaits(dev', "timer")
  BY <1>2, <1>3, <1>4 DEF AsioInv, AsioDev, Touches, NoWaits
<1>6. TimerWaits'
  BY <1>1, <1>5 DEF TimerWaits, NoWaits, Waiting
<1>7. AsioInv'
  BY <1>1, <1>5, <1>6, TouchesTimer
<1> QED
  BY <1>1, <1>7 DEF ContractStep, Contract!ContractNext, Contract!TimerTo

\* It is set, or set again.
LEMMA AsioSetTimer ==
  ASSUME AsioInv, Asio!SetTimer
  PROVE  AsioInv' /\ ContractStep
<1>1. /\ timer \in {"idle", "set"} /\ timer' = "set" /\ UNCHANGED <<poll, call>>
      /\ dev' = Asio!WaitFor(Asio!Cancel(dev, "timer"), "timer", "timeout")
  BY DEF Asio!SetTimer, Asio!TimerTo
<1>2. Touches(dev, dev', "timer") /\ TimerWaits'
  BY <1>1, AnyTimer DEF AsioInv, TimerWaits
<1>3. AsioInv'
  BY <1>1, <1>2, TouchesTimer
<1> QED
  BY <1>1, <1>3 DEF ContractStep, Contract!ContractNext, Contract!TimerTo

\* It is cleared.
LEMMA AsioClearTimer ==
  ASSUME AsioInv, Asio!ClearTimer
  PROVE  AsioInv' /\ ContractStep
<1>1. /\ timer \in {"idle", "set"} /\ timer' = "idle" /\ UNCHANGED <<poll, call>> /\ Asio!Bounded("timer")
      /\ dev' = Asio!Cancel([dev EXCEPT !.nr["timer"] = Asio!NrNext("timer")], "timer")
  BY DEF Asio!ClearTimer, Asio!TimerTo
<1>2. Touches(dev, dev', "timer") /\ Waiting(dev', "timer", {})
  BY <1>1, RecountTouches DEF AsioInv, Asio!Owners
<1>3. TimerWaits'
  BY <1>1, <1>2 DEF TimerWaits
<1>4. AsioInv'
  BY <1>1, <1>2, <1>3, TouchesTimer
<1> QED
  BY <1>1, <1>4 DEF ContractStep, Contract!ContractNext, Contract!TimerTo

\* It is closed.
LEMMA AsioCloseTimer ==
  ASSUME AsioInv, Asio!CloseTimer
  PROVE  AsioInv' /\ ContractStep
<1>1. /\ timer \in {"idle", "set"} /\ timer' = "none" /\ UNCHANGED <<poll, call>>
      /\ dev' = Asio!Delete(dev, "timer")
  BY DEF Asio!CloseTimer, Asio!TimerTo
<1>2. Touches(dev, dev', "timer") /\ NoWaits(dev', "timer")
  BY <1>1, DeleteTouches DEF AsioInv, Asio!Owners
<1>3. TimerWaits'
  BY <1>1, <1>2 DEF TimerWaits
<1>4. AsioInv'
  BY <1>1, <1>2, <1>3, TouchesTimer
<1> QED
  BY <1>1, <1>4 DEF ContractStep, Contract!ContractNext, Contract!TimerTo

\* The handler of a timer whose count is the timer's: the timer is set.
LEMMA AsioTimeout ==
  ASSUME AsioInv, NEW w \in DOMAIN dev.waits, NEW ms, Asio!Timeout(w, ms)
  PROVE  AsioInv' /\ ContractStep
<1> DEFINE n == Asio!Taken(dev, w)
<1>1. /\ call = Contract!NoCall /\ w.of = "timer" /\ w.nr = dev.nr["timer"] /\ poll' = poll
      /\ \/ dev' = n \/ dev' = Asio!WaitFor(Asio!Cancel(n, "timer"), "timer", "timeout")
      /\ timer' = timer /\ (call' = call \/ call' = [who |-> "timer", events |-> {}])
  BY DEF Asio!Timeout, Asio!Current, Asio!NoCall, Contract!NoCall
<1>2. timer = "set"
  BY <1>1 DEF AsioInv, TimerWaits, NoWaits, Waiting
<1>3. Touches(dev, n, "timer")
  BY TakenTouches DEF AsioInv, Asio!Owners
<1> HIDE DEF n
<1>4. Touches(dev, dev', "timer")
  <2>1. Touches(n, Asio!WaitFor(Asio!Cancel(n, "timer"), "timer", "timeout"), "timer")
    BY <1>3, AnyTimer DEF Touches
  <2>2. Touches(dev, Asio!WaitFor(Asio!Cancel(n, "timer"), "timer", "timeout"), "timer")
    BY <1>3, <2>1, TouchesTwice
  <2> QED
    BY <1>1, <1>3, <2>2
<1>5. TimerWaits'
  BY <1>1, <1>2 DEF TimerWaits
<1>6. AsioInv'
  BY <1>1, <1>4, <1>5, TouchesTimer
<1>7. ContractStep
  BY <1>1, <1>2 DEF ContractStep, Contract!ContractNext, Contract!Fired, Contract!contractVars
<1> QED
  BY <1>6, <1>7

\* A callback returns.
LEMMA AsioReturn ==
  ASSUME AsioInv, Asio!Return
  PROVE  AsioInv' /\ ContractStep
<1>1. call # Contract!NoCall /\ call' = Contract!NoCall /\ UNCHANGED <<poll, timer, dev>>
  BY DEF Asio!Return, Asio!Returned, Asio!NoCall, Contract!NoCall
<1>2. AsioInv'
  BY <1>1, AsioFewer DEF AsioInv
<1> QED
  BY <1>1, <1>2 DEF ContractStep, Contract!ContractNext, Contract!Returned

\* Every step of Boost.Asio.
LEMMA AsioStep ==
  ASSUME AsioInv, Asio!AsioNext
  PROVE  AsioInv' /\ ContractStep
<1>1. ASSUME NEW p \in Polls,
             \/ Asio!CreatePoll(p) \/ Asio!Stop(p) \/ Asio!Free(p) \/ Asio!Resize(p)
             \/ \E e \in SUBSET Events : Asio!Start(p, e) \/ Asio!Change(p, e)
      PROVE  AsioInv' /\ ContractStep
  BY <1>1, AsioCreatePoll, AsioStop, AsioFree, AsioResize, AsioStart, AsioChange
<1>2. ASSUME NEW w \in DOMAIN dev.waits,
             \/ Asio!Ready(w) \/ Asio!Stale(w) \/ Asio!Handler(w) \/ \E ms \in {0, 1} : Asio!Timeout(w, ms)
      PROVE  AsioInv' /\ ContractStep
  BY <1>2, AsioReady, AsioStale, AsioHandler, AsioTimeout
<1>3. CASE \/ Asio!Dead \/ Asio!Return
           \/ Asio!CreateTimer \/ Asio!SetTimer \/ Asio!ClearTimer \/ Asio!CloseTimer
  BY <1>3, AsioDead, AsioReturn, AsioCreateTimer, AsioSetTimer, AsioClearTimer, AsioCloseTimer
<1>4. Asio!Events = Events /\ Asio!Waits = DOMAIN dev.waits
  BY DEF Asio!Events, Events, Asio!Waits, Asio!BagToSet
<1> QED
  BY <1>1, <1>2, <1>3, <1>4 DEF Asio!AsioNext

\* Boost.Asio at the start.
LEMMA AsioStarts ==
  ASSUME Asio!AsioInit
  PROVE  AsioInv /\ Contract!ContractInit
<1>1. Contract!ContractInit
  BY DEF Asio!AsioInit, Asio!ContractInit, Contract!ContractInit, Asio!NoPoll, Contract!NoPoll,
     Asio!NoCall, Contract!NoCall
<1>2. \A p \in Polls : poll[p].state = "none"
  BY <1>1 DEF Contract!ContractInit, Contract!NoPoll
<1>3. dev = [waits |-> Asio!EmptyBag, dead |-> 0, polls |-> 0,
             nr |-> [o \in Asio!Owners |-> 0], p |-> [o \in Asio!Owners |-> "block"]]
  BY DEF Asio!AsioInit
<1>4. DOMAIN Asio!EmptyBag = {} /\ Asio!EmptyBag \in [{} -> Nat \ {0}]
  BY DEF Asio!EmptyBag, Asio!SetToBag
<1>5. AsioDev(dev) /\ DOMAIN dev.waits = {}
  BY <1>3, <1>4 DEF AsioDev
<1>6. Typing
  BY <1>1, InitTyped
<1>7. TimerWaits /\ \A p \in Polls : PollWaits(p)
  BY <1>1, <1>2, <1>5 DEF TimerWaits, PollWaits, NoWaits, Contract!ContractInit
<1> QED
  BY <1>1, <1>5, <1>6, <1>7 DEF AsioInv

-----------------------------------------------------------------------------
(* Counting the elements of a bag. *)

\* Every set of natural numbers has a least element.
LEMMA LeastNumber ==
  ASSUME NEW S \in SUBSET Nat, S # {}
  PROVE  \E m \in S : \A k \in S : m <= k
<1> DEFINE R == StrictSubsetOrdering(Nat)
           F == FiniteSubsetsOf(Nat)
           T == {0..n : n \in S}
<1>1. IsWellFoundedOn(R, F)
  BY FS_StrictSubsetOrderingWellFounded
<1>2. T \subseteq F
  <2> SUFFICES ASSUME NEW n \in S PROVE 0..n \in F
    OBVIOUS
  <2>. QED BY FS_Interval DEF FiniteSubsetsOf
<1>3. T # {}
  OBVIOUS
<1> HIDE DEF R, F
<1>4. \E x \in T : \A y \in T : ~ (<<y, x>> \in R)
  <2> HIDE DEF T
  <2>. QED BY <1>1, <1>2, <1>3, WFMin
<1>5. PICK m \in S : \A k \in S : <<0..k, 0..m>> \notin R
  BY <1>4
<1>6. ASSUME NEW k \in S, k < m PROVE FALSE
  <2>1. 0..k \subseteq 0..m /\ 0..k # 0..m /\ 0..k \subseteq Nat /\ 0..m \subseteq Nat
    BY <1>6
  <2>2. <<0..k, 0..m>> \in R
    BY <2>1 DEF R, StrictSubsetOrdering
  <2>. QED BY <1>5, <2>2
<1>. QED BY <1>5, <1>6

\* A bag is finite when it has finitely many elements; S is part of its elements.
FiniteBag(B) == IsFiniteSet(DOMAIN B) /\ B \in [DOMAIN B -> Nat]

\* The numbered copies of the elements S of the bag B.
Copies(B, S) == UNION {{w} \X (1..B[w]) : w \in S}
Count(B, S)  == Cardinality(Copies(B, S))

\* g sums the bag B over parts of its elements, one element after the other.
Sums(g, B) ==
  g = [S \in SUBSET DOMAIN B |->
         LET elt == CHOOSE e \in S : TRUE
         IN  IF S = {} THEN 0 ELSE B[elt] + g[S \ {elt}]]

\* The number of elements of a bag is such a sum.
LEMMA CardinalitySums ==
  ASSUME NEW B
  PROVE  Asio!BagCardinality(B) = (CHOOSE g : Sums(g, B))[DOMAIN B]
BY DEF Asio!BagCardinality, Sums

\* One element has finitely many copies, as many as the bag says.
LEMMA CopiesOfOne ==
  ASSUME NEW w, NEW n \in Nat
  PROVE  IsFiniteSet({w} \X (1..n)) /\ Cardinality({w} \X (1..n)) = n
<1>1. IsFiniteSet({w}) /\ Cardinality({w}) = 1
  BY FS_Singleton
<1>2. IsFiniteSet(1..n) /\ Cardinality(1..n) = n
  BY FS_Interval
<1> DEFINE W == {w}
           N == 1..n
<1> HIDE DEF W, N
<1>3. IsFiniteSet(W \X N) /\ Cardinality(W \X N) = Cardinality(W) * Cardinality(N)
  BY <1>1, <1>2, FS_Product DEF W, N
<1>4. Cardinality(W) * Cardinality(N) = n
  BY <1>1, <1>2 DEF W, N
<1> QED
  BY <1>3, <1>4 DEF W, N

\* A finite bag has finitely many copies.
LEMMA CopiesFinite ==
  ASSUME NEW B, FiniteBag(B), NEW S \in SUBSET DOMAIN B
  PROVE  IsFiniteSet(Copies(B, S))
<1> DEFINE f == [w \in S |-> {w} \X (1..B[w])]
           T == {{w} \X (1..B[w]) : w \in S}
<1>1. IsFiniteSet(S)
  BY FS_Subset DEF FiniteBag
<1>2. f \in Surjection(S, T)
  BY DEF Surjection
<1>3. IsFiniteSet(T)
  <2> HIDE DEF f, T
  <2> QED
    BY <1>1, <1>2, FS_Surjection
<1>4. \A X \in T : IsFiniteSet(X)
  BY CopiesOfOne DEF FiniteBag
<1>5. IsFiniteSet(UNION T)
  <2> HIDE DEF T
  <2> QED
    BY <1>3, <1>4, FS_UNION
<1> QED
  BY <1>5 DEF Copies

\* Counts are numbers.
LEMMA CountType ==
  ASSUME NEW B, FiniteBag(B), NEW S \in SUBSET DOMAIN B
  PROVE  Count(B, S) \in Nat
BY CopiesFinite, FS_CardinalityType DEF Count

\* No element has no copy.
LEMMA CountNone ==
  ASSUME NEW B
  PROVE  Count(B, {}) = 0
<1>1. Copies(B, {}) = {}
  BY DEF Copies
<1> QED
  BY <1>1, FS_EmptySet DEF Count

\* An element adds its number of copies to those of the others.
LEMMA CountOne ==
  ASSUME NEW B, FiniteBag(B), NEW S \in SUBSET DOMAIN B, NEW x \in S
  PROVE  Count(B, S) = B[x] + Count(B, S \ {x})
<1> DEFINE X == {x} \X (1..B[x])
           R == Copies(B, S \ {x})
<1>1. Copies(B, S) = X \cup R
  BY DEF Copies
<1>2. X \cap R = {}
  BY DEF Copies
<1>3. IsFiniteSet(X) /\ Cardinality(X) = B[x] /\ B[x] \in Nat
  BY CopiesOfOne DEF FiniteBag
<1>4. IsFiniteSet(R) /\ Cardinality(R) \in Nat
  BY CopiesFinite, FS_CardinalityType
<1> HIDE DEF X, R
<1>5. Cardinality(X \cup R) = Cardinality(X) + Cardinality(R) - Cardinality({})
  BY <1>2, <1>3, <1>4, FS_Union
<1>6. Cardinality(Copies(B, S)) = B[x] + Cardinality(R)
  BY <1>1, <1>3, <1>4, <1>5, FS_EmptySet
<1> QED
  BY <1>6 DEF Count, R

\* Bags that agree on S have as many copies of it.
LEMMA CountSame ==
  ASSUME NEW B, NEW C, NEW S, \A w \in S : B[w] = C[w]
  PROVE  Count(B, S) = Count(C, S)
<1>1. Copies(B, S) = Copies(C, S)
  BY DEF Copies
<1> QED
  BY <1>1 DEF Count

\* Counting copies is a sum, and there is no other.
LEMMA CountSums ==
  ASSUME NEW B, FiniteBag(B)
  PROVE  Sums([S \in SUBSET DOMAIN B |-> Count(B, S)], B)
<1> DEFINE g == [S \in SUBSET DOMAIN B |-> Count(B, S)]
<1>1. ASSUME NEW S \in SUBSET DOMAIN B, S # {}
      PROVE  g[S] = B[CHOOSE e \in S : TRUE] + g[S \ {CHOOSE e \in S : TRUE}]
  <2> DEFINE x == CHOOSE e \in S : TRUE
  <2>1. x \in S
    BY <1>1
  <2> HIDE DEF x
  <2>2. g[S] = Count(B, S) /\ g[S \ {x}] = Count(B, S \ {x})
    OBVIOUS
  <2>3. g[S] = B[x] + g[S \ {x}]
    BY <2>1, <2>2, CountOne
  <2> QED
    BY <2>3 DEF x
<1>2. g[{}] = 0
  BY CountNone
<1> QED
  BY <1>1, <1>2 DEF Sums

\* By the smallest set on which they differ.
LEMMA SumsAgree ==
  ASSUME NEW B, FiniteBag(B), NEW g, Sums(g, B), NEW S \in SUBSET DOMAIN B
  PROVE  g[S] = Count(B, S)
<1> DEFINE Bad == {T \in SUBSET DOMAIN B : g[T] # Count(B, T)}
           N == {Cardinality(T) : T \in Bad}
<1> SUFFICES ASSUME Bad # {} PROVE FALSE
  OBVIOUS
<1>1. \A T \in SUBSET DOMAIN B : IsFiniteSet(T) /\ Cardinality(T) \in Nat
  BY FS_Subset, FS_CardinalityType DEF FiniteBag
<1>2. N \in SUBSET Nat /\ N # {}
  BY <1>1
<1>3. PICK m \in N : \A k \in N : m <= k
  <2> HIDE DEF N
  <2> QED
    BY <1>2, LeastNumber
<1>4. PICK T \in Bad : m = Cardinality(T)
  BY <1>3
<1> DEFINE x == CHOOSE e \in T : TRUE
<1>5. g[T] = IF T = {} THEN 0 ELSE B[x] + g[T \ {x}]
  BY DEF Sums
<1>6. T # {}
  BY <1>4, <1>5, CountNone
<1>7. x \in T
  BY <1>6
<1> HIDE DEF x
<1>8. Cardinality(T \ {x}) = Cardinality(T) - 1
  BY <1>1, <1>7, FS_RemoveElement
<1>9. T \ {x} \notin Bad
  BY <1>1, <1>3, <1>4, <1>8
<1>10. g[T \ {x}] = Count(B, T \ {x})
  BY <1>9
<1> QED
  BY <1>4, <1>5, <1>6, <1>7, <1>10, CountOne

\* The number of elements of a finite bag, and of part of one.
LEMMA CardinalityCounts ==
  ASSUME NEW B, FiniteBag(B)
  PROVE  Asio!BagCardinality(B) = Count(B, DOMAIN B)
<1>1. Sums(CHOOSE g : Sums(g, B), B)
  BY CountSums
<1>2. (CHOOSE g : Sums(g, B))[DOMAIN B] = Count(B, DOMAIN B)
  BY <1>1, SumsAgree
<1> QED
  BY <1>2, CardinalitySums

\* The bag of only some elements.
LEMMA PartCounts ==
  ASSUME NEW B, FiniteBag(B), NEW S \in SUBSET DOMAIN B
  PROVE  Asio!BagCardinality([w \in S |-> B[w]]) = Count(B, S)
<1> DEFINE C == [w \in S |-> B[w]]
<1>1. DOMAIN C = S /\ (\A w \in S : C[w] = B[w]) /\ FiniteBag(C)
  BY FS_Subset DEF FiniteBag
<1> HIDE DEF C
<1>2. Asio!BagCardinality(C) = Count(C, S)
  BY <1>1, CardinalityCounts
<1>3. Count(C, S) = Count(B, S)
  BY <1>1, CountSame
<1> QED
  BY <1>2, <1>3 DEF C

\* Adding an element, taking one, and taking all copies of some.
LEMMA AddCounts ==
  ASSUME NEW B, FiniteBag(B), NEW x, NEW S \in SUBSET (DOMAIN B \cup {x})
  PROVE  /\ FiniteBag(Asio!BagAdd(B, x)) /\ DOMAIN Asio!BagAdd(B, x) = DOMAIN B \cup {x}
         /\ Count(Asio!BagAdd(B, x), S) = Count(B, S \cap DOMAIN B) + IF x \in S THEN 1 ELSE 0
<1> DEFINE C == Asio!BagAdd(B, x)
<1>1. /\ DOMAIN C = DOMAIN B \cup {x} /\ C \in [DOMAIN C -> Nat]
      /\ \A w \in DOMAIN B \ {x} : C[w] = B[w]
      /\ C[x] = IF x \in DOMAIN B THEN B[x] + 1 ELSE 1
  BY DEF Asio!BagAdd, FiniteBag
<1> HIDE DEF C
<1>2. FiniteBag(C)
  BY <1>1, FS_AddElement DEF FiniteBag
<1>3. Count(C, S \ {x}) = Count(B, S \ {x}) /\ Count(B, S \ {x}) \in Nat
  <2>1. \A w \in S \ {x} : C[w] = B[w]
    BY <1>1
  <2> QED
    BY <2>1, CountSame, CountType
<1>4. CASE x \in S
  <2>1. Count(C, S) = C[x] + Count(C, S \ {x})
    BY <1>1, <1>2, <1>4, CountOne
  <2>2. CASE x \in DOMAIN B
    <3>1. (S \cap DOMAIN B) \ {x} = S \ {x} /\ x \in S \cap DOMAIN B
      BY <1>4, <2>2
    <3>2. Count(B, S \cap DOMAIN B) = B[x] + Count(B, S \ {x})
      BY <3>1, CountOne
    <3>3. B[x] \in Nat
      BY <2>2 DEF FiniteBag
    <3> QED
      BY <1>1, <1>2, <1>3, <1>4, <2>1, <2>2, <3>2, <3>3 DEF C
  <2>3. CASE x \notin DOMAIN B
    <3>1. S \cap DOMAIN B = S \ {x}
      BY <2>3
    <3> QED
      BY <1>1, <1>2, <1>3, <1>4, <2>1, <2>3, <3>1 DEF C
  <2> QED
    BY <2>2, <2>3
<1>5. CASE x \notin S
  <2>1. S \cap DOMAIN B = S /\ S \ {x} = S
    BY <1>5
  <2> QED
    BY <1>1, <1>2, <1>3, <1>5, <2>1 DEF C
<1> QED
  BY <1>4, <1>5

\* Taking one copy of x.
LEMMA RemoveCounts ==
  ASSUME NEW B, FiniteBag(B), NEW x \in DOMAIN B, B[x] # 0, NEW S \in SUBSET DOMAIN B
  PROVE  /\ FiniteBag(Asio!BagRemove(B, x)) /\ DOMAIN Asio!BagRemove(B, x) \subseteq DOMAIN B
         /\ \A w \in DOMAIN B \ {x} : w \in DOMAIN Asio!BagRemove(B, x)
         /\ Count(Asio!BagRemove(B, x), S \cap DOMAIN Asio!BagRemove(B, x))
              = Count(B, S) - IF x \in S THEN 1 ELSE 0
<1> DEFINE C == Asio!BagRemove(B, x)
           D == DOMAIN C
<1>1. /\ D = IF B[x] = 1 THEN DOMAIN B \ {x} ELSE DOMAIN B
      /\ C \in [D -> Nat]
      /\ \A w \in DOMAIN B \ {x} : C[w] = B[w]
      /\ B[x] # 1 => C[x] = B[x] - 1
  BY DEF Asio!BagRemove, FiniteBag
<1>0. C = Asio!BagRemove(B, x)
  OBVIOUS
<1> HIDE DEF C
<1>2. FiniteBag(C)
  <2>1. IsFiniteSet(D)
    BY <1>1, FS_Subset DEF FiniteBag
  <2> QED
    BY <1>1, <2>1 DEF FiniteBag
<1>3. Count(C, S \ {x}) = Count(B, S \ {x}) /\ Count(B, S \ {x}) \in Nat
  <2>1. \A w \in S \ {x} : C[w] = B[w]
    BY <1>1
  <2> QED
    BY <2>1, CountSame, CountType
<1>4. B[x] \in Nat
  BY DEF FiniteBag
<1>5. Count(C, S \cap D) = Count(B, S) - IF x \in S THEN 1 ELSE 0
  <2>1. CASE x \in S
    <3>1. Count(B, S) = B[x] + Count(B, S \ {x})
      BY <2>1, CountOne
    <3>2. CASE B[x] = 1
      <4>1. S \cap D = S \ {x}
        BY <1>1, <3>2
      <4>2. Count(C, S \cap D) = Count(B, S \ {x})
        BY <1>3, <4>1
      <4>3. Count(B, S) = 1 + Count(B, S \ {x})
        BY <3>1, <3>2
      <4> HIDE DEF D
      <4> QED
        BY <1>3, <2>1, <4>2, <4>3
    <3>3. CASE B[x] # 1
      <4>1. S \cap D = S
        BY <1>1, <3>3
      <4>2. Count(C, S) = C[x] + Count(C, S \ {x})
        BY <1>1, <1>2, <2>1, <3>3, CountOne
      <4> QED
        BY <1>1, <1>3, <1>4, <2>1, <3>1, <3>3, <4>1, <4>2
    <3> QED
      BY <3>2, <3>3
  <2>2. CASE x \notin S
    <3>1. S \cap D = S \ {x} /\ S \ {x} = S
      BY <1>1, <2>2
    <3> QED
      BY <1>3, <2>2, <3>1
  <2> QED
    BY <2>1, <2>2
<1> QED
  BY <1>0, <1>1, <1>2, <1>5

\* Counting a set in two parts.
LEMMA CountParts ==
  ASSUME NEW B, FiniteBag(B), NEW S \in SUBSET DOMAIN B, NEW T \in SUBSET S
  PROVE  Count(B, S) = Count(B, T) + Count(B, S \ T)
<1> DEFINE X == Copies(B, T)
           R == Copies(B, S \ T)
<1>1. Copies(B, S) = X \cup R
  BY DEF Copies
<1>2. X \cap R = {}
  BY DEF Copies
<1>3. IsFiniteSet(X) /\ Cardinality(X) \in Nat
  BY CopiesFinite, FS_CardinalityType
<1>4. IsFiniteSet(R) /\ Cardinality(R) \in Nat
  BY CopiesFinite, FS_CardinalityType
<1> HIDE DEF X, R
<1>5. Cardinality(X \cup R) = Cardinality(X) + Cardinality(R) - Cardinality({})
  BY <1>2, <1>3, <1>4, FS_Union
<1>6. Cardinality(Copies(B, S)) = Cardinality(X) + Cardinality(R)
  BY <1>1, <1>3, <1>4, <1>5, FS_EmptySet
<1> QED
  BY <1>6 DEF Count, X, R

-----------------------------------------------------------------------------
(* The waits of Boost.Asio, counted. *)

\* The waits that the library counts, and those of o for e whose handlers dispatch.
Polled(d)     == Count(d.waits, {w \in DOMAIN d.waits : w.of # "timer"})
Live(d, o, e) == Count(d.waits, {w \in DOMAIN d.waits : w.of = o /\ w.event = e /\ w.nr = d.nr[o]})

Finite(d) == IsFiniteSet(DOMAIN d.waits) /\ d.dead \in Int /\ d.polls \in Int

\* From d to n, the library's count and asio's differ as much as they did, and other
\* owners than o have the same waits.
Keeps(d, n, o) ==
  /\ Finite(n)
  /\ n.polls - (n.dead + Polled(n)) = d.polls - (d.dead + Polled(d))
  /\ \A q \in Asio!Owners \ {o} : \A f : Live(n, q, f) = Live(d, q, f)

\* One such step after the other.
LEMMA KeepsTwice ==
  ASSUME NEW a, NEW b, NEW c, NEW o, Keeps(a, b, o), Keeps(b, c, o)
  PROVE  Keeps(a, c, o)
BY DEF Keeps

\* The waits are a finite bag.
LEMMA DevBag ==
  ASSUME NEW d, AsioDev(d), Finite(d)
  PROVE  /\ FiniteBag(d.waits) /\ Polled(d) \in Nat
         /\ \A o, f : Live(d, o, f) \in Nat
<1>1. FiniteBag(d.waits)
  BY DEF AsioDev, Finite, FiniteBag
<1>2. \A S \in SUBSET DOMAIN d.waits : Count(d.waits, S) \in Nat
  BY <1>1, CountType
<1> QED
  BY <1>1, <1>2 DEF Polled, Live

\* Taking a wait counts one for its event.
LEMMA WaitForCounts ==
  ASSUME NEW d, AsioDev(d), Finite(d), NEW o \in Asio!Owners, NEW e
  PROVE  LET n == Asio!WaitFor(d, o, e)
         IN  /\ Keeps(d, n, o)
             /\ \A f : Live(n, o, f) = Live(d, o, f) + IF f = e THEN 1 ELSE 0
<1> DEFINE n == Asio!WaitFor(d, o, e)
           x == [of |-> o, event |-> e, nr |-> d.nr[o], ready |-> FALSE]
           B == d.waits
           C == Asio!BagAdd(d.waits, x)
           P == IF o = "timer" THEN d.polls ELSE d.polls + 1
<1>1. n = [d EXCEPT !.waits = C, !.polls = P]
  BY DEF Asio!WaitFor, AsioDev
<1>2. x.of = o /\ x.event = e /\ x.nr = d.nr[o]
  OBVIOUS
<1>3. FiniteBag(B)
  BY DevBag
<1>4. P \in Int
  BY DEF Finite
<1> HIDE DEF n, x, C, P
<1>5. n.waits = C /\ n.polls = P /\ n.dead = d.dead /\ n.nr = d.nr
  BY <1>1 DEF AsioDev
<1>6. FiniteBag(C) /\ DOMAIN C = DOMAIN B \cup {x}
  BY <1>3, AddCounts DEF C
<1>7. \A S \in SUBSET DOMAIN C : Count(C, S) = Count(B, S \cap DOMAIN B) + IF x \in S THEN 1 ELSE 0
  BY <1>3, <1>6, AddCounts DEF C
<1>8. Finite(n)
  BY <1>4, <1>5, <1>6 DEF Finite, FiniteBag
<1>9. Polled(n) = Polled(d) + IF o # "timer" THEN 1 ELSE 0
  <2> DEFINE S == {w \in DOMAIN C : w.of # "timer"}
  <2>1. S \cap DOMAIN B = {w \in DOMAIN B : w.of # "timer"} /\ (x \in S <=> o # "timer") /\ S \in SUBSET DOMAIN C
    BY <1>2, <1>6
  <2>2. Polled(n) = Count(C, S) /\ Polled(d) = Count(B, S \cap DOMAIN B)
    BY <1>5, <2>1 DEF Polled
  <2> HIDE DEF S
  <2> QED
    BY <1>7, <2>1, <2>2
<1>10. ASSUME NEW q \in Asio!Owners, NEW f
       PROVE  Live(n, q, f) = Live(d, q, f) + IF q = o /\ f = e THEN 1 ELSE 0
  <2> DEFINE S == {w \in DOMAIN C : w.of = q /\ w.event = f /\ w.nr = d.nr[q]}
  <2>1. /\ S \cap DOMAIN B = {w \in DOMAIN B : w.of = q /\ w.event = f /\ w.nr = d.nr[q]}
        /\ (x \in S <=> q = o /\ f = e) /\ S \in SUBSET DOMAIN C
    BY <1>2, <1>6
  <2>2. Live(n, q, f) = Count(C, S) /\ Live(d, q, f) = Count(B, S \cap DOMAIN B)
    BY <1>5, <2>1 DEF Live
  <2> HIDE DEF S
  <2> QED
    BY <1>7, <2>1, <2>2
<1>11. \A q \in Asio!Owners \ {o} : \A f : Live(n, q, f) = Live(d, q, f)
  <2>1. \A q, f : Live(d, q, f) \in Nat
    BY DevBag
  <2> QED
    BY <1>10, <2>1
<1>12. n.polls - (n.dead + Polled(n)) = d.polls - (d.dead + Polled(d))
  <2>1. Polled(d) \in Nat /\ d.polls \in Int /\ d.dead \in Int
    BY DevBag DEF Finite
  <2> QED
    BY <1>5, <1>9, <2>1 DEF P
<1> QED
  BY <1>8, <1>10, <1>11, <1>12 DEF Keeps, n

\* Taking the waits of a poll counts one for each event.
LEMMA PollForCounts ==
  ASSUME NEW d, AsioDev(d), Finite(d), NEW p \in Polls, NEW e \in SUBSET Events
  PROVE  LET n == Asio!PollFor(d, p, e)
         IN  /\ Keeps(d, n, p)
             /\ \A f : Live(n, p, f) = Live(d, p, f) + IF f \in e \cup {"error"} THEN 1 ELSE 0
<1> DEFINE A == Asio!WaitFor(d, p, "error")
           R == IF "in" \in e THEN Asio!WaitFor(A, p, "in") ELSE A
           W == IF "out" \in e THEN Asio!WaitFor(R, p, "out") ELSE R
           N == Asio!PollFor(d, p, e)
<1>1. N = W
  BY DEF Asio!PollFor
<1>2. p \in Asio!Owners
  BY DEF Asio!Owners
<1>3. \A f : Live(d, p, f) \in Nat
  BY DevBag
<1>4. /\ AsioDev(A) /\ Keeps(d, A, p)
      /\ \A f : Live(A, p, f) = Live(d, p, f) + IF f = "error" THEN 1 ELSE 0
  BY <1>2, AnyWait, WaitForCounts DEF Touches
<1> HIDE DEF A
<1>5. /\ AsioDev(R) /\ Keeps(d, R, p)
      /\ \A f : Live(R, p, f) = Live(A, p, f) + IF f = "in" /\ "in" \in e THEN 1 ELSE 0
  <2>1. CASE "in" \in e
    <3>1. AsioDev(R) /\ Keeps(A, R, p)
          /\ \A f : Live(R, p, f) = Live(A, p, f) + IF f = "in" THEN 1 ELSE 0
      BY <1>2, <1>4, <2>1, AnyWait, WaitForCounts DEF Touches, Keeps
    <3> QED
      BY <1>4, <2>1, <3>1, KeepsTwice
  <2>2. CASE "in" \notin e
    BY <1>3, <1>4, <2>2
  <2> QED
    BY <2>1, <2>2
<1> HIDE DEF R
<1>6. /\ Keeps(d, W, p)
      /\ \A f : Live(W, p, f) = Live(R, p, f) + IF f = "out" /\ "out" \in e THEN 1 ELSE 0
  <2>1. CASE "out" \in e
    <3>1. /\ Keeps(R, W, p)
          /\ \A f : Live(W, p, f) = Live(R, p, f) + IF f = "out" THEN 1 ELSE 0
      BY <1>2, <1>5, <2>1, WaitForCounts DEF Keeps
    <3> QED
      BY <1>5, <2>1, <3>1, KeepsTwice
  <2>2. CASE "out" \notin e
    BY <1>3, <1>4, <1>5, <2>2
  <2> QED
    BY <2>1, <2>2
<1> HIDE DEF W
<1>7. ASSUME NEW f PROVE Live(W, p, f) = Live(d, p, f) + IF f \in e \cup {"error"} THEN 1 ELSE 0
  <2>1. Live(d, p, f) \in Nat
    BY <1>3
  <2>2. /\ Live(A, p, f) = Live(d, p, f) + IF f = "error" THEN 1 ELSE 0
        /\ Live(R, p, f) = Live(A, p, f) + IF f = "in" /\ "in" \in e THEN 1 ELSE 0
        /\ Live(W, p, f) = Live(R, p, f) + IF f = "out" /\ "out" \in e THEN 1 ELSE 0
    BY <1>4, <1>5, <1>6
  <2>3. f \in e <=> (f = "in" /\ "in" \in e) \/ (f = "out" /\ "out" \in e)
    BY DEF Events
  <2>4. "error" \notin e
    BY DEF Events
  <2> QED
    BY <2>1, <2>2, <2>3, <2>4
<1> QED
  BY <1>1, <1>6, <1>7

\* Ending all waits of W: those of a poll become handlers that do nothing.
LEMMA KillCounts ==
  ASSUME NEW d, AsioDev(d), Finite(d), NEW o, NEW W \in SUBSET DOMAIN d.waits, \A w \in W : w.of = o
  PROVE  Keeps(d, Asio!Kill(d, W), o)
<1> DEFINE n == Asio!Kill(d, W)
           B == d.waits
           C == Asio!(-)(B, Asio!Of(d, W))
           V == {w \in W : w.of # "timer"}
           k == Asio!BagCardinality(Asio!Of(d, V))
<1>1. n = [d EXCEPT !.waits = C, !.dead = d.dead + k]
  BY DEF Asio!Kill
<1>2. FiniteBag(B)
  BY DevBag
<1>3. k = Count(B, V)
  BY <1>2, PartCounts DEF Asio!Of
<1>4. DOMAIN C = DOMAIN B \ W /\ C = [w \in DOMAIN C |-> C[w]] /\ \A w \in DOMAIN C : C[w] = B[w]
  BY DEF Asio!Of, Asio!(-), AsioDev
<1> HIDE DEF n, C, k
<1>5. n.waits = C /\ n.polls = d.polls /\ n.dead = d.dead + k /\ n.nr = d.nr
  BY <1>1 DEF AsioDev
<1>6. k \in Nat
  BY <1>2, <1>3, CountType
<1>7. Finite(n)
  <2>1. IsFiniteSet(DOMAIN B \ W)
    BY FS_Difference DEF Finite
  <2>2. d.dead + k \in Int /\ d.polls \in Int
    BY <1>6 DEF Finite
  <2> QED
    BY <1>4, <1>5, <2>1, <2>2 DEF Finite
<1>8. \A S \in SUBSET DOMAIN C : Count(C, S) = Count(B, S)
  BY <1>4, CountSame
<1>9. Polled(d) = Polled(n) + k
  <2> DEFINE S == {w \in DOMAIN B : w.of # "timer"}
             T == {w \in DOMAIN C : w.of # "timer"}
  <2>1. T = S \ V /\ V \in SUBSET S /\ S \in SUBSET DOMAIN B /\ T \in SUBSET DOMAIN C
    BY <1>4
  <2>2. Count(B, S) = Count(B, V) + Count(B, S \ V)
    <3> HIDE DEF S, V, T
    <3> QED
      BY <1>2, <2>1, CountParts
  <2>3. Polled(n) = Count(C, T) /\ Polled(d) = Count(B, S)
    BY <1>5 DEF Polled
  <2>4. Count(C, T) = Count(B, T) /\ Count(B, T) \in Nat
    <3> HIDE DEF S, V, T
    <3>1. T \in SUBSET DOMAIN B
      BY <2>1
    <3> QED
      BY <1>2, <1>8, <2>1, <3>1, CountType
  <2> HIDE DEF S, V, T
  <2> QED
    BY <1>3, <1>6, <2>1, <2>2, <2>3, <2>4
<1>10. ASSUME NEW q \in Asio!Owners \ {o}, NEW f PROVE Live(n, q, f) = Live(d, q, f)
  <2> DEFINE S == {w \in DOMAIN B : w.of = q /\ w.event = f /\ w.nr = d.nr[q]}
  <2>1. S = {w \in DOMAIN C : w.of = q /\ w.event = f /\ w.nr = n.nr[q]} /\ S \in SUBSET DOMAIN C
    BY <1>4, <1>5
  <2>2. Live(n, q, f) = Count(C, S) /\ Live(d, q, f) = Count(B, S)
    BY <1>5, <2>1 DEF Live
  <2> HIDE DEF S
  <2> QED
    BY <1>8, <2>1, <2>2
<1>11. n.polls - (n.dead + Polled(n)) = d.polls - (d.dead + Polled(d))
  <2>1. Polled(d) \in Nat /\ d.polls \in Int /\ d.dead \in Int
    BY DevBag DEF Finite
  <2>2. Polled(n) \in Int
    <3>1. FiniteBag(C)
      BY <1>2, <1>4, <1>5, <1>7 DEF FiniteBag, Finite
    <3> QED
      BY <1>5, <3>1, CountType DEF Polled
  <2> QED
    BY <1>5, <1>6, <1>9, <2>1, <2>2
<1> QED
  BY <1>7, <1>10, <1>11 DEF Keeps, n

\* Cancelling.
LEMMA CancelCounts ==
  ASSUME NEW d, AsioDev(d), Finite(d), NEW o
  PROVE  Keeps(d, Asio!Cancel(d, o), o)
<1>1. \A w \in {v \in DOMAIN d.waits : v.of = o /\ ~v.ready} : w.of = o
  OBVIOUS
<1> QED
  BY <1>1, KillCounts DEF Asio!Cancel, Asio!BagToSet

\* Freeing.
LEMMA DeleteCounts ==
  ASSUME NEW d, AsioDev(d), Finite(d), NEW o
  PROVE  Keeps(d, Asio!Delete(d, o), o)
BY KillCounts DEF Asio!Delete, Asio!BagToSet

\* A handler that is taken counts down, whether it dispatches or not.
LEMMA TakenCounts ==
  ASSUME NEW d, AsioDev(d), Finite(d), NEW x \in DOMAIN d.waits
  PROVE  LET n == Asio!Taken(d, x)
         IN  /\ Keeps(d, n, x.of)
             /\ \A q \in Asio!Owners : \A f :
                  Live(n, q, f) = Live(d, q, f)
                                    - IF q = x.of /\ f = x.event /\ x.nr = d.nr[q] THEN 1 ELSE 0
<1> DEFINE n == Asio!Taken(d, x)
           B == d.waits
           C == Asio!BagRemove(B, x)
           P == IF x.of = "timer" THEN d.polls ELSE d.polls - 1
<1>1. n = [d EXCEPT !.waits = C, !.polls = P]
  BY DEF Asio!Taken
<1>2. FiniteBag(B) /\ B[x] # 0
  BY DevBag DEF AsioDev
<1>3. P \in Int
  BY DEF Finite
<1> HIDE DEF n, C, P
<1>4. n.waits = C /\ n.polls = P /\ n.dead = d.dead /\ n.nr = d.nr
  BY <1>1 DEF AsioDev
<1>5. FiniteBag(C) /\ DOMAIN C \subseteq DOMAIN B
  BY <1>2, RemoveCounts DEF C
<1>6. \A S \in SUBSET DOMAIN B : Count(C, S \cap DOMAIN C) = Count(B, S) - IF x \in S THEN 1 ELSE 0
  BY <1>2, RemoveCounts DEF C
<1>7. Finite(n)
  BY <1>3, <1>4, <1>5 DEF Finite, FiniteBag
<1>8. Polled(n) = Polled(d) - IF x.of # "timer" THEN 1 ELSE 0
  <2> DEFINE S == {w \in DOMAIN B : w.of # "timer"}
  <2>1. S \cap DOMAIN C = {w \in DOMAIN C : w.of # "timer"} /\ (x \in S <=> x.of # "timer") /\ S \in SUBSET DOMAIN B
    BY <1>5
  <2>2. Polled(n) = Count(C, S \cap DOMAIN C) /\ Polled(d) = Count(B, S)
    BY <1>4, <2>1 DEF Polled
  <2> HIDE DEF S
  <2> QED
    BY <1>6, <2>1, <2>2
<1>9. ASSUME NEW q \in Asio!Owners, NEW f
      PROVE  Live(n, q, f) = Live(d, q, f) - IF q = x.of /\ f = x.event /\ x.nr = d.nr[q] THEN 1 ELSE 0
  <2> DEFINE S == {w \in DOMAIN B : w.of = q /\ w.event = f /\ w.nr = d.nr[q]}
  <2>1. /\ S \cap DOMAIN C = {w \in DOMAIN C : w.of = q /\ w.event = f /\ w.nr = d.nr[q]}
        /\ (x \in S <=> q = x.of /\ f = x.event /\ x.nr = d.nr[q]) /\ S \in SUBSET DOMAIN B
    BY <1>5
  <2>2. Live(n, q, f) = Count(C, S \cap DOMAIN C) /\ Live(d, q, f) = Count(B, S)
    BY <1>4, <2>1 DEF Live
  <2> HIDE DEF S
  <2> QED
    BY <1>6, <2>1, <2>2
<1>10. \A q \in Asio!Owners \ {x.of} : \A f : Live(n, q, f) = Live(d, q, f)
  <2>1. \A q, f : Live(d, q, f) \in Nat
    BY DevBag
  <2> QED
    BY <1>9, <2>1
<1>11. n.polls - (n.dead + Polled(n)) = d.polls - (d.dead + Polled(d))
  <2>1. Polled(d) \in Nat /\ d.polls \in Int /\ d.dead \in Int
    BY DevBag DEF Finite
  <2> QED
    BY <1>4, <1>8, <2>1 DEF P
<1> QED
  BY <1>7, <1>9, <1>10, <1>11 DEF Keeps, n

\* A new count for o, whatever it is.
LEMMA NrCounts ==
  ASSUME NEW d, Finite(d), NEW n, NEW o, n.waits = d.waits, n.dead = d.dead, n.polls = d.polls,
         \A q \in Asio!Owners \ {o} : n.nr[q] = d.nr[q]
  PROVE  Keeps(d, n, o)
<1>1. Finite(n) /\ Polled(n) = Polled(d)
  BY DEF Finite, Polled
<1>2. \A q \in Asio!Owners \ {o} : \A f : Live(n, q, f) = Live(d, q, f)
  BY DEF Live
<1> QED
  BY <1>1, <1>2 DEF Keeps

\* An owner that has no wait whose handler dispatches.
LEMMA NoneLive ==
  ASSUME NEW d, NEW o, Waiting(d, o, {}) \/ NoWaits(d, o)
  PROVE  \A f : Live(d, o, f) = 0
<1> SUFFICES ASSUME NEW f PROVE Live(d, o, f) = 0
  OBVIOUS
<1>1. {w \in DOMAIN d.waits : w.of = o /\ w.event = f /\ w.nr = d.nr[o]} = {}
  BY DEF Waiting, NoWaits
<1> QED
  BY <1>1, CountNone DEF Live

AsioEvents == {"error", "in", "out"}

\* A poll has one wait that counts for each event it is polled for, while started.
OneEach(p) ==
  poll[p].state = "started" =>
    \A f \in AsioEvents : Live(dev, p, f) = IF f \in poll[p].events \cup {"error"} THEN 1 ELSE 0

AsioCounts ==
  /\ Finite(dev)
  /\ dev.polls = dev.dead + Polled(dev)
  /\ \A p \in Polls : OneEach(p)

\* The counts after a step of one poll, of the timer, or of none.
LEMMA CountsOnePoll ==
  ASSUME AsioInv, AsioCounts, AsioDev(dev'), NEW o, Keeps(dev, dev', o),
         \A q \in Polls \ {o} : poll'[q] = poll[q], o \in Polls => OneEach(o)'
  PROVE  AsioCounts'
<1>1. Finite(dev') /\ Finite(dev) /\ dev.polls = dev.dead + Polled(dev)
      /\ dev'.polls - (dev'.dead + Polled(dev')) = dev.polls - (dev.dead + Polled(dev))
  BY DEF AsioCounts, Keeps
<1>2. Polled(dev) \in Nat /\ Polled(dev') \in Nat
  BY <1>1, DevBag DEF AsioInv
<1>3. dev'.polls = dev'.dead + Polled(dev')
  BY <1>1, <1>2 DEF Finite
<1>4. ASSUME NEW q \in Polls \ {o} PROVE OneEach(q)'
  <2>1. q \in Asio!Owners \ {o} /\ poll'[q] = poll[q] /\ OneEach(q)
    BY DEF Asio!Owners, AsioCounts
  <2> QED
    BY <2>1 DEF OneEach, Keeps
<1> QED
  BY <1>1, <1>3, <1>4 DEF AsioCounts

\* A poll that is made is not started.
LEMMA CreatePollCounts ==
  ASSUME AsioInv, AsioCounts, AsioInv', NEW p \in Polls, Asio!CreatePoll(p)
  PROVE  AsioCounts'
<1>1. Contract!Made(p) /\ dev' = [dev EXCEPT !.nr[p] = 0, !.p[p] = "block"]
  BY DEF Asio!CreatePoll, Asio!Made, Contract!Made
<1>2. poll'[p] = [state |-> "made", events |-> {}] /\ \A q \in Polls \ {p} : poll'[q] = poll[q]
  BY <1>1, MadeTyped DEF AsioInv
<1>3. dev' = [waits |-> dev.waits, dead |-> dev.dead, polls |-> dev.polls,
              nr |-> [dev.nr EXCEPT ![p] = 0], p |-> [dev.p EXCEPT ![p] = "block"]]
  BY <1>1 DEF AsioInv, AsioDev
<1>4. \A q \in Asio!Owners \ {p} : dev'.nr[q] = dev.nr[q]
  BY <1>3 DEF AsioInv, AsioDev
<1>5. dev'.waits = dev.waits /\ dev'.dead = dev.dead /\ dev'.polls = dev.polls
  BY <1>3
<1>6. Keeps(dev, dev', p)
  BY <1>4, <1>5, NrCounts DEF AsioCounts
<1> QED
  BY <1>2, <1>6, CountsOnePoll DEF AsioInv, OneEach

\* Starting: from no wait to one for each event.
LEMMA StartCounts ==
  ASSUME AsioInv, AsioCounts, AsioInv', NEW p \in Polls, NEW e \in SUBSET Events, Asio!Start(p, e)
  PROVE  AsioCounts'
<1>1. Contract!Started(p, e) /\ dev' = Asio!PollFor(dev, p, e)
  BY DEF Asio!Start, Asio!Started, Contract!Started
<1>2. poll'[p] = [state |-> "started", events |-> e] /\ \A q \in Polls \ {p} : poll'[q] = poll[q]
  BY <1>1, StartedTyped DEF AsioInv
<1>3. NoWaits(dev, p)
  BY <1>1 DEF Contract!Started, AsioInv, PollWaits
<1>4. \A f : Live(dev, p, f) = 0
  BY <1>3, NoneLive
<1>5. /\ Keeps(dev, dev', p)
      /\ \A f : Live(dev', p, f) = Live(dev, p, f) + IF f \in e \cup {"error"} THEN 1 ELSE 0
  BY <1>1, PollForCounts DEF AsioInv, AsioCounts
<1>6. OneEach(p)'
  BY <1>2, <1>4, <1>5 DEF OneEach
<1> QED
  BY <1>2, <1>5, <1>6, CountsOnePoll DEF AsioInv

\* A new count, once what is pending is cancelled.
LEMMA RecountCounts ==
  ASSUME AsioDev(dev), Finite(dev), NEW o \in Asio!Owners, Asio!Bounded(o)
  PROVE  LET n == Asio!Cancel([dev EXCEPT !.nr[o] = Asio!NrNext(o)], o)
         IN  AsioDev(n) /\ Keeps(dev, n, o) /\ \A f : Live(n, o, f) = 0
<1> DEFINE r == [dev EXCEPT !.nr[o] = Asio!NrNext(o)]
           n == Asio!Cancel(r, o)
           c == Asio!NrNext(o)
<1>1. AsioDev(n) /\ Waiting(n, o, {})
  BY RecountTouches DEF Touches
<1>2. \A f : Live(n, o, f) = 0
  BY <1>1, NoneLive
<1> HIDE DEF c
<1>3. r = [dev EXCEPT !.nr = [@ EXCEPT ![o] = c]]
  BY DEF c
<1> HIDE DEF r
<1>4. /\ r = [waits |-> r.waits, dead |-> r.dead, polls |-> r.polls, nr |-> r.nr, p |-> r.p]
      /\ r.nr = [dev.nr EXCEPT ![o] = c] /\ r.p = dev.p /\ r.waits = dev.waits
      /\ r.dead = dev.dead /\ r.polls = dev.polls
  BY <1>3 DEF AsioDev
<1>5. r.nr = [q \in Asio!Owners |-> r.nr[q]]
      /\ \A q \in Asio!Owners \ {o} : r.nr[q] = dev.nr[q]
  BY <1>4 DEF AsioDev
<1>6. AsioDev(r)
  BY <1>4, <1>5 DEF AsioDev
<1>7. Keeps(dev, r, o)
  BY <1>4, <1>5, NrCounts
<1>8. Keeps(r, n, o)
  BY <1>6, <1>7, CancelCounts DEF Keeps
<1> QED
  BY <1>1, <1>2, <1>7, <1>8, KeepsTwice DEF n, r

\* Changing: from none that counts to one for each event.
LEMMA ChangeCounts ==
  ASSUME AsioInv, AsioCounts, AsioInv', NEW p \in Polls, NEW e \in SUBSET Events, Asio!Change(p, e)
  PROVE  AsioCounts'
<1> DEFINE n == Asio!Cancel([dev EXCEPT !.nr[p] = Asio!NrNext(p)], p)
<1>1. Contract!Changed(p, e) /\ Asio!Bounded(p) /\ dev' = Asio!PollFor(n, p, e)
  BY DEF Asio!Change, Asio!Changed, Contract!Changed, Asio!Recount
<1>2. poll'[p] = [state |-> "started", events |-> e] /\ \A q \in Polls \ {p} : poll'[q] = poll[q]
  BY <1>1, ChangedTyped DEF AsioInv
<1>3. AsioDev(n) /\ Keeps(dev, n, p) /\ \A f : Live(n, p, f) = 0
  BY <1>1, RecountCounts DEF AsioInv, AsioCounts, Asio!Owners
<1> HIDE DEF n
<1>4. /\ Keeps(n, dev', p)
      /\ \A f : Live(dev', p, f) = Live(n, p, f) + IF f \in e \cup {"error"} THEN 1 ELSE 0
  BY <1>1, <1>3, PollForCounts DEF Keeps
<1>5. Keeps(dev, dev', p)
  BY <1>3, <1>4, KeepsTwice
<1>6. OneEach(p)'
  BY <1>2, <1>3, <1>4 DEF OneEach
<1> QED
  BY <1>2, <1>5, <1>6, CountsOnePoll DEF AsioInv

\* A poll that is stopped is not started.
LEMMA StopCounts ==
  ASSUME AsioInv, AsioCounts, AsioInv', NEW p \in Polls, Asio!Stop(p)
  PROVE  AsioCounts'
<1>1. /\ Contract!Stopped(p) /\ Asio!Bounded(p)
      /\ dev' = Asio!Cancel([dev EXCEPT !.nr[p] = Asio!NrNext(p)], p)
  BY DEF Asio!Stop, Asio!Stopped, Contract!Stopped, Asio!Recount
<1>2. poll'[p] = [state |-> "stopped", events |-> {}] /\ \A q \in Polls \ {p} : poll'[q] = poll[q]
  BY <1>1, StoppedTyped DEF AsioInv
<1>3. Keeps(dev, dev', p)
  BY <1>1, RecountCounts DEF AsioInv, AsioCounts, Asio!Owners
<1> QED
  BY <1>2, <1>3, CountsOnePoll DEF AsioInv, OneEach

\* Nor is one that is freed.
LEMMA FreeCounts ==
  ASSUME AsioInv, AsioCounts, AsioInv', NEW p \in Polls, Asio!Free(p)
  PROVE  AsioCounts'
<1>1. Contract!Freed({p}) /\ dev' = Asio!Delete(dev, p)
  BY DEF Asio!Free, Asio!Freed, Contract!Freed, Asio!NoPoll, Contract!NoPoll
<1>2. poll'[p] = [state |-> "none", events |-> {}] /\ \A q \in Polls \ {p} : poll'[q] = poll[q]
  BY <1>1, FreedTyped DEF AsioInv
<1>3. Keeps(dev, dev', p)
  BY <1>1, DeleteCounts DEF AsioInv, AsioCounts
<1> QED
  BY <1>2, <1>3, CountsOnePoll DEF AsioInv, OneEach

\* Resizing does nothing.
LEMMA ResizeCounts ==
  ASSUME AsioInv, AsioCounts, NEW p \in Polls, Asio!Resize(p)
  PROVE  AsioCounts'
<1>1. poll' = poll /\ dev' = [dev EXCEPT !.p[p] = "block"]
  BY DEF Asio!Resize
<1>2. dev' = dev
  BY <1>1 DEF AsioInv, AsioDev
<1> QED
  BY <1>1, <1>2 DEF AsioCounts, OneEach

\* One copy of x replaced by one of y, in T if x was in S.
LEMMA ReplaceCounts ==
  ASSUME NEW B, FiniteBag(B), NEW x \in DOMAIN B, B[x] # 0, NEW y,
         NEW V, V = Asio!BagRemove(B, x), NEW U, U = Asio!BagAdd(V, y),
         NEW S \in SUBSET DOMAIN B, NEW T \in SUBSET DOMAIN U,
         T \cap DOMAIN V = S \cap DOMAIN V, x \in S <=> y \in T
  PROVE  Count(U, T) = Count(B, S)
<1>1. FiniteBag(V) /\ Count(V, S \cap DOMAIN V) = Count(B, S) - IF x \in S THEN 1 ELSE 0
  BY RemoveCounts
<1>2. DOMAIN U = DOMAIN V \cup {y}
  BY <1>1, AddCounts
<1>3. Count(U, T) = Count(V, T \cap DOMAIN V) + IF y \in T THEN 1 ELSE 0
  <2>1. T \in SUBSET (DOMAIN V \cup {y})
    BY <1>2
  <2>2. Count(Asio!BagAdd(V, y), T) = Count(V, T \cap DOMAIN V) + IF y \in T THEN 1 ELSE 0
    BY ONLY <1>1, <2>1, AddCounts
  <2> QED
    BY <2>2
<1>4. Count(B, S) \in Nat
  BY CountType
<1>5. Count(V, T \cap DOMAIN V) = Count(B, S) - IF y \in T THEN 1 ELSE 0
  BY <1>1
<1> DEFINE b == Count(B, S)
           v == Count(V, T \cap DOMAIN V)
           k == IF y \in T THEN 1 ELSE 0
<1>6. b \in Nat /\ v = b - k /\ Count(U, T) = v + k /\ k \in Nat
  BY <1>3, <1>4, <1>5
<1> HIDE DEF v, k
<1> QED
  BY <1>6

\* A wait ends: it counts as before.
LEMMA ReadyCounts ==
  ASSUME AsioInv, AsioCounts, AsioInv', NEW x \in DOMAIN dev.waits, Asio!Ready(x)
  PROVE  AsioCounts'
<1> DEFINE y == [x EXCEPT !.ready = TRUE]
           B == dev.waits
           V == Asio!BagRemove(B, x)
           U == Asio!BagAdd(V, y)
<1>1. poll' = poll /\ dev' = [dev EXCEPT !.waits = U]
  BY DEF Asio!Ready
<1>2. y.of = x.of /\ y.event = x.event /\ y.nr = x.nr
  <2>1. x = [of |-> x.of, event |-> x.event, nr |-> x.nr, ready |-> x.ready]
    BY DEF AsioInv, AsioDev
  <2>2. y = [of |-> x.of, event |-> x.event, nr |-> x.nr, ready |-> TRUE]
    BY <2>1, Readied
  <2> HIDE DEF y
  <2> QED
    BY <2>2
<1>3. FiniteBag(B) /\ B[x] # 0
  BY DevBag DEF AsioInv, AsioDev, AsioCounts
<1>4. V = Asio!BagRemove(B, x) /\ U = Asio!BagAdd(V, y)
  OBVIOUS
<1> HIDE DEF y, V, U
<1>5. FiniteBag(V) /\ DOMAIN V \subseteq DOMAIN B /\ (\A w \in DOMAIN B \ {x} : w \in DOMAIN V)
  BY <1>3, <1>4, RemoveCounts
<1>6. FiniteBag(U) /\ DOMAIN U = DOMAIN V \cup {y}
  BY <1>4, <1>5, AddCounts
<1>7. dev'.waits = U /\ dev'.polls = dev.polls /\ dev'.dead = dev.dead /\ dev'.nr = dev.nr
  BY <1>1 DEF AsioInv, AsioDev
<1>8. ASSUME NEW S \in SUBSET DOMAIN B, NEW T \in SUBSET DOMAIN U, T \cap DOMAIN V = S \cap DOMAIN V,
             x \in S <=> y \in T
      PROVE  Count(U, T) = Count(B, S)
  BY <1>3, <1>4, <1>8, ReplaceCounts
<1>9. Finite(dev')
  BY <1>6, <1>7 DEF AsioCounts, Finite, FiniteBag
<1>10. Polled(dev') = Polled(dev)
  <2> DEFINE S == {w \in DOMAIN B : w.of # "timer"}
             T == {w \in DOMAIN U : w.of # "timer"}
  <2>1. /\ S \in SUBSET DOMAIN B /\ T \in SUBSET DOMAIN U /\ T \cap DOMAIN V = S \cap DOMAIN V
        /\ x \in S <=> y \in T
    BY <1>2, <1>5, <1>6
  <2>2. Polled(dev') = Count(U, T) /\ Polled(dev) = Count(B, S)
    BY <1>7 DEF Polled
  <2> HIDE DEF S, T
  <2> QED
    BY <1>8, <2>1, <2>2
<1>11. ASSUME NEW q, NEW f PROVE Live(dev', q, f) = Live(dev, q, f)
  <2> DEFINE S == {w \in DOMAIN B : w.of = q /\ w.event = f /\ w.nr = dev.nr[q]}
             T == {w \in DOMAIN U : w.of = q /\ w.event = f /\ w.nr = dev.nr[q]}
  <2>1. /\ S \in SUBSET DOMAIN B /\ T \in SUBSET DOMAIN U /\ T \cap DOMAIN V = S \cap DOMAIN V
        /\ x \in S <=> y \in T
    BY <1>2, <1>5, <1>6
  <2>2. Live(dev', q, f) = Count(U, T) /\ Live(dev, q, f) = Count(B, S)
    BY <1>7 DEF Live
  <2> HIDE DEF S, T
  <2> QED
    BY <1>8, <2>1, <2>2
<1>12. Keeps(dev, dev', "timer")
  BY <1>7, <1>9, <1>10, <1>11 DEF Keeps
<1> QED
  BY <1>1, <1>12, CountsOnePoll, TimerAssumption DEF AsioInv

\* A handler with an old count was not counted for its event.
LEMMA StaleCounts ==
  ASSUME AsioInv, AsioCounts, AsioInv', NEW x \in DOMAIN dev.waits, Asio!Stale(x)
  PROVE  AsioCounts'
<1>1. poll' = poll /\ x.nr # dev.nr[x.of] /\ dev' = Asio!Taken(dev, x)
  BY DEF Asio!Stale, Asio!Current
<1>2. Keeps(dev, dev', x.of) /\ \A q \in Asio!Owners : \A f :
        Live(dev', q, f) = Live(dev, q, f) - IF q = x.of /\ f = x.event /\ x.nr = dev.nr[q] THEN 1 ELSE 0
  BY <1>1, TakenCounts DEF AsioInv, AsioCounts
<1>3. x.of \in Polls => OneEach(x.of)'
  <2> SUFFICES ASSUME x.of \in Polls PROVE OneEach(x.of)'
    OBVIOUS
  <2>1. \A f : Live(dev, x.of, f) \in Nat
    BY DevBag DEF AsioInv, AsioCounts
  <2>2. \A f : Live(dev', x.of, f) = Live(dev, x.of, f)
    BY <1>1, <1>2, <2>1 DEF Asio!Owners
  <2> QED
    BY <1>1, <2>2 DEF OneEach, AsioCounts
<1> QED
  BY <1>1, <1>2, <1>3, CountsOnePoll DEF AsioInv

\* An aborted handler counts down with the library.
LEMMA DeadCounts ==
  ASSUME AsioInv, AsioCounts, AsioInv', Asio!Dead
  PROVE  AsioCounts'
<1>1. poll' = poll /\ dev' = [dev EXCEPT !.dead = dev.dead - 1, !.polls = dev.polls - 1]
  BY DEF Asio!Dead
<1>2. dev'.waits = dev.waits /\ dev'.nr = dev.nr /\ dev'.dead = dev.dead - 1 /\ dev'.polls = dev.polls - 1
  BY <1>1 DEF AsioInv, AsioDev
<1>3. Finite(dev') /\ Polled(dev') = Polled(dev) /\ \A q, f : Live(dev', q, f) = Live(dev, q, f)
  BY <1>2 DEF AsioCounts, Finite, Polled, Live
<1>4. dev.dead \in Int /\ dev.polls \in Int /\ Polled(dev) \in Nat
  BY DevBag DEF AsioInv, AsioCounts, Finite
<1>5. dev'.polls - (dev'.dead + Polled(dev')) = dev.polls - (dev.dead + Polled(dev))
  BY <1>2, <1>3, <1>4
<1>6. Keeps(dev, dev', "timer")
  BY <1>3, <1>5 DEF Keeps
<1> QED
  BY <1>1, <1>6, CountsOnePoll, TimerAssumption DEF AsioInv

\* A handler that dispatches waits again, for the same event.
LEMMA HandlerCounts ==
  ASSUME AsioInv, AsioCounts, AsioInv', NEW x \in DOMAIN dev.waits, Asio!Handler(x)
  PROVE  AsioCounts'
<1> DEFINE n == Asio!Taken(dev, x)
           o == x.of
<1>1. poll' = poll /\ x.nr = dev.nr[o] /\ dev' = Asio!WaitFor(n, o, x.event)
  BY DEF Asio!Handler, Asio!Current
<1>2. o \in Asio!Owners
  BY DEF AsioInv, AsioDev
<1>3. AsioDev(n)
  BY <1>2, TakenTouches DEF AsioInv, Touches
<1>4. Keeps(dev, n, o) /\ \A q \in Asio!Owners : \A f :
        Live(n, q, f) = Live(dev, q, f) - IF q = o /\ f = x.event /\ x.nr = dev.nr[q] THEN 1 ELSE 0
  BY TakenCounts DEF AsioInv, AsioCounts
<1> HIDE DEF n, o
<1>5. Keeps(n, dev', o) /\ \A f : Live(dev', o, f) = Live(n, o, f) + IF f = x.event THEN 1 ELSE 0
  BY <1>1, <1>2, <1>3, <1>4, WaitForCounts DEF Keeps
<1>6. \A f : Live(dev, o, f) \in Nat
  BY DevBag DEF AsioInv, AsioCounts
<1>7. \A f : Live(dev', o, f) = Live(dev, o, f)
  BY <1>1, <1>2, <1>4, <1>5, <1>6
<1>8. o \in Polls => OneEach(o)'
  BY <1>1, <1>7 DEF OneEach, AsioCounts
<1>9. Keeps(dev, dev', o)
  BY <1>4, <1>5, KeepsTwice
<1> QED
  BY <1>1, <1>8, <1>9, CountsOnePoll DEF AsioInv

\* Setting the timer, by the library or by the handler of one that repeats.
LEMMA SetCounts ==
  ASSUME NEW d, AsioDev(d), Finite(d)
  PROVE  Keeps(d, Asio!WaitFor(Asio!Cancel(d, "timer"), "timer", "timeout"), "timer")
<1> DEFINE n == Asio!Cancel(d, "timer")
<1>1. "timer" \in Asio!Owners
  BY DEF Asio!Owners
<1>2. AsioDev(n) /\ Keeps(d, n, "timer")
  BY <1>1, CancelTouches, CancelCounts DEF Touches
<1> HIDE DEF n
<1>3. Keeps(n, Asio!WaitFor(n, "timer", "timeout"), "timer")
  BY <1>1, <1>2, WaitForCounts DEF Keeps
<1>4. Keeps(d, Asio!WaitFor(n, "timer", "timeout"), "timer")
  BY <1>2, <1>3, KeepsTwice
<1> QED
  BY <1>4 DEF n

\* The calls and the handler of the timer.
LEMMA TimerCounts ==
  ASSUME AsioInv, AsioCounts, AsioInv',
         \/ Asio!CreateTimer \/ Asio!SetTimer \/ Asio!ClearTimer \/ Asio!CloseTimer
         \/ \E x \in DOMAIN dev.waits, ms \in {0, 1} : Asio!Timeout(x, ms)
  PROVE  AsioCounts'
<1>0. AsioDev(dev) /\ Finite(dev) /\ "timer" \in Asio!Owners
  BY DEF AsioInv, AsioCounts, Asio!Owners
<1>1. ASSUME Asio!CreateTimer PROVE poll' = poll /\ Keeps(dev, dev', "timer")
  <2>1. poll' = poll /\ dev' = [dev EXCEPT !.nr["timer"] = 0]
    BY <1>1 DEF Asio!CreateTimer, Asio!TimerTo
  <2>2. dev' = [waits |-> dev.waits, dead |-> dev.dead, polls |-> dev.polls,
                nr |-> [dev.nr EXCEPT !["timer"] = 0], p |-> dev.p]
    BY <1>0, <2>1 DEF AsioDev
  <2>3. dev'.waits = dev.waits /\ dev'.dead = dev.dead /\ dev'.polls = dev.polls
    BY <2>2
  <2>4. \A q \in Asio!Owners \ {"timer"} : dev'.nr[q] = dev.nr[q]
    BY <1>0, <2>2 DEF AsioDev
  <2> QED
    BY <1>0, <2>1, <2>3, <2>4, NrCounts
<1>2. ASSUME Asio!SetTimer PROVE poll' = poll /\ Keeps(dev, dev', "timer")
  BY <1>0, <1>2, SetCounts DEF Asio!SetTimer, Asio!TimerTo
<1>3. ASSUME Asio!ClearTimer PROVE poll' = poll /\ Keeps(dev, dev', "timer")
  BY <1>0, <1>3, RecountCounts DEF Asio!ClearTimer, Asio!TimerTo
<1>4. ASSUME Asio!CloseTimer PROVE poll' = poll /\ Keeps(dev, dev', "timer")
  BY <1>0, <1>4, DeleteCounts DEF Asio!CloseTimer, Asio!TimerTo
<1>5. ASSUME NEW x \in DOMAIN dev.waits, NEW ms, Asio!Timeout(x, ms)
      PROVE  poll' = poll /\ Keeps(dev, dev', "timer")
  <2> DEFINE n == Asio!Taken(dev, x)
             m == Asio!WaitFor(Asio!Cancel(n, "timer"), "timer", "timeout")
  <2>1. x.of = "timer" /\ poll' = poll /\ (dev' = n \/ dev' = m)
    BY <1>5 DEF Asio!Timeout
  <2>2. Keeps(dev, n, "timer") /\ AsioDev(n)
    BY <1>0, <2>1, TakenCounts, TakenTouches DEF Touches
  <2> HIDE DEF n
  <2>3. Keeps(n, m, "timer")
    BY <2>2, SetCounts DEF Keeps
  <2> QED
    BY <2>1, <2>2, <2>3, KeepsTwice
<1> QED
  BY <1>1, <1>2, <1>3, <1>4, <1>5, CountsOnePoll, TimerAssumption DEF AsioInv

\* Every step of Boost.Asio.
LEMMA CountsStep ==
  ASSUME AsioInv, AsioCounts, AsioInv', Asio!AsioNext
  PROVE  AsioCounts'
<1>1. ASSUME NEW p \in Polls,
             \/ Asio!CreatePoll(p) \/ Asio!Stop(p) \/ Asio!Free(p) \/ Asio!Resize(p)
             \/ \E e \in SUBSET Events : Asio!Start(p, e) \/ Asio!Change(p, e)
      PROVE  AsioCounts'
  BY <1>1, CreatePollCounts, StopCounts, FreeCounts, ResizeCounts, StartCounts, ChangeCounts
<1>2. ASSUME NEW w \in DOMAIN dev.waits,
             \/ Asio!Ready(w) \/ Asio!Stale(w) \/ Asio!Handler(w) \/ \E ms \in {0, 1} : Asio!Timeout(w, ms)
      PROVE  AsioCounts'
  BY <1>2, ReadyCounts, StaleCounts, HandlerCounts, TimerCounts
<1>3. CASE \/ Asio!Dead
           \/ Asio!CreateTimer \/ Asio!SetTimer \/ Asio!ClearTimer \/ Asio!CloseTimer
  BY <1>3, DeadCounts, TimerCounts
<1>4. CASE Asio!Return
  BY <1>4 DEF Asio!Return, AsioCounts, OneEach
<1>5. Asio!Events = Events /\ Asio!Waits = DOMAIN dev.waits
  BY DEF Asio!Events, Events, Asio!Waits, Asio!BagToSet
<1> QED
  BY <1>1, <1>2, <1>3, <1>4, <1>5 DEF Asio!AsioNext

\* Boost.Asio at the start.
LEMMA CountsStart ==
  ASSUME Asio!AsioInit
  PROVE  AsioCounts
<1>1. \A p \in Polls : poll[p].state = "none"
  <2>1. Contract!ContractInit
    BY AsioStarts
  <2> QED
    BY ONLY <2>1 DEF Contract!ContractInit, Contract!NoPoll
<1>2. dev.dead = 0 /\ dev.polls = 0 /\ DOMAIN dev.waits = {}
  BY DEF Asio!AsioInit, Asio!EmptyBag, Asio!SetToBag
<1>3. {w \in DOMAIN dev.waits : w.of # "timer"} = {}
  BY <1>2
<1>4. Polled(dev) = 0 /\ Finite(dev)
  BY <1>2, <1>3, CountNone, FS_EmptySet DEF Polled, Finite
<1> QED
  BY <1>1, <1>2, <1>4 DEF AsioCounts, OneEach

\* The library's count is that of the waits, as asio has them.
LEMMA CountsAreRight ==
  ASSUME AsioInv, AsioCounts
  PROVE  Asio!AsioWaitsOnce
<1>1. FiniteBag(dev.waits)
  BY DevBag DEF AsioInv, AsioCounts
<1>2. \A S \in SUBSET DOMAIN dev.waits : Asio!BagCardinality(Asio!Of(dev, S)) = Count(dev.waits, S)
  BY <1>1, PartCounts DEF Asio!Of
<1>3. dev.polls = dev.dead + Asio!BagCardinality(Asio!Of(dev, {w \in DOMAIN dev.waits : w.of # "timer"}))
  BY <1>2 DEF AsioCounts, Polled
<1>4. \A p, e : Asio!Counting(p, e) = Live(dev, p, e)
  BY <1>2 DEF Asio!Counting, Live, Asio!Waits, Asio!BagToSet
<1>5. ASSUME NEW p \in Polls, poll[p].state = "started", NEW e \in {"error", "in", "out"}
      PROVE  Asio!Counting(p, e) = IF e \in poll[p].events \cup {"error"} THEN 1 ELSE 0
  BY <1>4, <1>5 DEF AsioCounts, OneEach, AsioEvents
<1> QED
  BY <1>3, <1>5 DEF Asio!AsioWaitsOnce, Asio!Waits, Asio!BagToSet

-----------------------------------------------------------------------------
(* Whichever is built. *)

BackendInv ==
  /\ backend = "libuv" => LibuvInv
  /\ backend = "asio" => AsioInv
  /\ backend = "gcd" => GcdInv

\* The backend that is built, at the start.
LEMMA BackendStarts ==
  ASSUME Init
  PROVE  BackendInv /\ Contract!ContractInit
<1>1. backend \in {"libuv", "asio", "gcd"}
  BY BuildsAssumption DEF Init
<1> QED
  BY <1>1, LibuvStarts, AsioStarts, GcdStarts DEF Init, BackendInv

\* Its steps.
LEMMA BackendStep ==
  ASSUME BackendInv, Supported, [Next]_vars
  PROVE  BackendInv' /\ ContractStep
<1>1. CASE backend = "libuv" /\ Libuv!LibuvNext /\ UNCHANGED backend
  BY <1>1, LibuvStep DEF BackendInv
<1>2. CASE backend = "asio" /\ Asio!AsioNext /\ UNCHANGED backend
  BY <1>2, AsioStep DEF BackendInv
<1>3. CASE backend = "gcd" /\ Gcd!GcdNext /\ UNCHANGED backend
  BY <1>3, GcdStep DEF BackendInv
<1>4. CASE UNCHANGED vars
  <2>1. backend' = backend /\ poll' = poll /\ timer' = timer /\ call' = call /\ dev' = dev
    BY <1>4 DEF vars
  <2>2. (LibuvInv => LibuvInv') /\ (GcdInv => GcdInv') /\ (AsioInv => AsioInv')
    BY <2>1 DEF LibuvInv, GcdInv, AsioInv, Typing, TwoBlocks, TimerWaits, PollWaits
  <2> QED
    BY <2>1, <2>2 DEF BackendInv, ContractStep, Contract!contractVars
<1> QED
  BY <1>1, <1>2, <1>3, <1>4 DEF Next

\* So the invariant of each holds while it is the one that is built.
LEMMA BackendInvariant == ASSUME Supported PROVE Spec => []BackendInv
<1>1. Init => BackendInv
  BY BackendStarts
<1>2. BackendInv /\ [Next]_vars => BackendInv'
  BY BackendStep
<1> QED
  BY <1>1, <1>2, PTL DEF Spec

\* us_internal_dispatch_ready_poll is called of a poll that is started, where it
\* is now, for what it is polled for, and a timer's callback while the timer is
\* set: of libuv, Boost.Asio and GCD, with any number of polls, and whatever is
\* queued when polls are changed, moved, stopped and freed.
THEOREM BackendsKeepContract == ASSUME Supported PROVE Spec => KeepsContract
<1>1. Init => BackendInv /\ Contract!ContractInit
  BY BackendStarts
<1>2. BackendInv /\ [Next]_vars => [Contract!ContractNext]_Contract!contractVars
  BY BackendStep DEF ContractStep
<1> QED
  BY <1>1, <1>2, BackendInvariant, PTL DEF Spec, KeepsContract, Contract!ContractSpec

\* us_poll_free and the close callback of libuv between them release both blocks
\* of every poll that was freed, whichever comes last.
THEOREM LibuvReleasesBlocks == ASSUME Supported PROVE Spec => []LibuvFreesPolls
<1>1. BackendInv => LibuvFreesPolls
  BY DEF BackendInv, LibuvInv, TwoBlocks, LibuvFreesPolls, Libuv!LibuvFrees
<1> QED
  BY <1>1, BackendInvariant, PTL

\* The dispatch sources of each poll of gcd are suspended exactly while their
\* events are not polled for: no resume too many, no release while suspended.
THEOREM GcdBalancesSources == ASSUME Supported PROVE Spec => []GcdSourcesBalance
<1>1. BackendInv => GcdSourcesBalance
  <2>1. ASSUME GcdInv PROVE Gcd!GcdBalanced
    <3>1. ~dev.broken
      BY <2>1 DEF GcdInv, GcdDev
    <3>2. ASSUME NEW p \in Polls, NEW e \in Events
          PROVE  dev.suspended[p][e] = IF poll[p].state = "none" THEN -1
                                       ELSE IF e \in poll[p].events THEN 0 ELSE 1
      BY <2>1, <3>2 DEF GcdInv, NoSources, Level
    <3> QED
      BY <3>1, <3>2 DEF Gcd!GcdBalanced, Gcd!Events, Events
  <2> QED
    BY <2>1 DEF BackendInv, GcdSourcesBalance
<1> QED
  BY <1>1, BackendInvariant, PTL

(* Boost.Asio needs no assumption on what the application calls. *)
AsioBuild == backend = "asio" => AsioInv /\ AsioCounts

\* It holds at the start.
LEMMA AsioBuildStarts ==
  ASSUME Init
  PROVE  AsioBuild
BY AsioStarts, CountsStart DEF Init, AsioBuild

\* Its steps keep both invariants.
LEMMA AsioBuildStep ==
  ASSUME AsioBuild, [Next]_vars
  PROVE  AsioBuild'
<1>1. CASE backend = "asio" /\ Asio!AsioNext /\ UNCHANGED backend
  BY <1>1, AsioStep, CountsStep DEF AsioBuild
<1>2. CASE UNCHANGED vars
  BY <1>2 DEF vars, AsioBuild, AsioInv, Typing, TimerWaits, PollWaits, AsioCounts, OneEach
<1>3. CASE backend # "asio" /\ UNCHANGED backend
  BY <1>3 DEF AsioBuild
<1> QED
  BY <1>1, <1>2, <1>3 DEF Next

\* us_loop_run of asio goes on while polls is not 0: it is the number of handlers
\* that are still to run, whatever was queued when polls were changed, stopped and
\* freed; and each event that a started poll is polled for has exactly one wait
\* whose handler dispatches, so that no event is dispatched twice or never.
THEOREM AsioWaitsOncePerEvent == Spec => []AsioWaitsForEach
<1>1. Init => AsioBuild
  BY AsioBuildStarts
<1>2. AsioBuild /\ [Next]_vars => AsioBuild'
  BY AsioBuildStep
<1>3. AsioBuild => AsioWaitsForEach
  BY CountsAreRight DEF AsioBuild, AsioWaitsForEach
<1> QED
  BY <1>1, <1>2, <1>3, PTL DEF Spec
=============================================================================
