------------------------- MODULE RootResolverProofs -------------------------
(***************************************************************************)
(* Theorems about the root resolver, for any number of domains, answers,   *)
(* checks and REST calls, which overlap as they like.                      *)
(***************************************************************************)
EXTENDS RootResolver, TLAPS

-----------------------------------------------------------------------------
(* Type correctness *)

\* A task writes a file that it opened.
TypeInv ==
  /\ ResolverTypeOK
  /\ \A t \in Tasks : At(t, "write") => file # Absent

LEMMA CheckingType ==
  ASSUME NEW todo \in SUBSET Domains, NEW saves \in BOOLEAN
  PROVE  Checking(todo, saves) \in Job
BY DEF Checking, Job, Stages

LEMMA AfterChangeType ==
  ASSUME NEW j \in Job
  PROVE  /\ AfterChange(j) \in Job \cup {Absent}
         /\ AfterChange(j) # Absent => AfterChange(j).stage # "write"
BY DEF AfterChange, Job, Stages

\* What a restart registers and puts its boot task to.
LEMMA LoadedType ==
  ASSUME ResolverTypeOK
  PROVE  Loaded(file) \in SUBSET Domains
BY DEF ResolverTypeOK, Loaded, List

LEMMA StartedType ==
  ASSUME NEW loaded \in SUBSET Domains
  PROVE  /\ Registered(loaded) \in SUBSET Domains
         /\ Started(loaded) \in [Tasks -> Job \cup {Absent}]
         /\ \A t \in Tasks : Started(loaded)[t] # Absent => Started(loaded)[t].stage = "check"
<1>1. {Default} \in SUBSET Domains
  BY ResolverAssumption
<1>2. Checking({Default}, TRUE) \in Job /\ Checking(loaded, FALSE) \in Job
  BY <1>1, CheckingType
<1>3. Checking({Default}, TRUE).stage = "check" /\ Checking(loaded, FALSE).stage = "check"
  BY DEF Checking
<1> QED
  BY <1>1, <1>2, <1>3 DEF Started, Registered

LEMMA TypeInit == Init => TypeInv
<1> SUFFICES ASSUME Init PROVE TypeInv
  OBVIOUS
<1>1. {} \in SUBSET Domains
  OBVIOUS
<1> QED
  BY <1>1, StartedType, ResolverAssumption DEF Init, TypeInv, ResolverTypeOK, At

\* A job that replaces that of one task.
LEMMA JobType ==
  ASSUME TypeInv, NEW t \in Tasks, NEW j \in Job \cup {Absent},
         job' = [job EXCEPT ![t] = j],
         j # Absent /\ j.stage = "write" => file' # Absent,
         file # Absent => file' # Absent
  PROVE  /\ job' \in [Tasks -> Job \cup {Absent}]
         /\ \A u \in Tasks : At(u, "write")' => file' # Absent
BY DEF TypeInv, ResolverTypeOK, At

LEMMA CallType ==
  ASSUME TypeInv, NEW t \in Tasks,
         Check(t) \/ \E d \in Domains : Add(t, d) \/ Remove(t, d) \/ Lookup(t, d)
  PROVE  TypeInv'
<1>1. CASE Check(t)
  <2>1. Checking(endpoints, FALSE) \in Job /\ Checking(endpoints, FALSE).stage # "write"
    BY CheckingType DEF TypeInv, ResolverTypeOK, Checking
  <2>2. job' = [job EXCEPT ![t] = Checking(endpoints, FALSE)]
    BY <1>1 DEF Check
  <2> QED
    BY <1>1, <2>1, <2>2, JobType DEF Check, TypeInv, ResolverTypeOK
<1>2. ASSUME NEW d \in Domains, Add(t, d) PROVE TypeInv'
  <2>1. Checking({d}, TRUE) \in Job /\ Checking({d}, TRUE).stage # "write"
    BY CheckingType DEF Checking
  <2>2. job' = [job EXCEPT ![t] = Checking({d}, TRUE)]
    BY <1>2 DEF Add
  <2>3. endpoints' \in SUBSET Domains
    BY <1>2 DEF Add, TypeInv, ResolverTypeOK
  <2> QED
    BY <1>2, <2>1, <2>2, <2>3, JobType DEF Add, TypeInv, ResolverTypeOK
<1>3. ASSUME NEW d \in Domains, Remove(t, d) PROVE TypeInv'
  <2> DEFINE c == Checking({}, Removes(d))
             j == [c EXCEPT !.stage = "cleanup", !.domain = d]
  <2>1. Removes(d) \in BOOLEAN /\ {} \in SUBSET Domains
    BY DEF Removes
  <2>2. c \in Job
    BY <2>1, CheckingType
  <2> HIDE DEF c
  <2>3. j \in Job /\ j.stage # "write"
    BY <2>2 DEF Job, Stages
  <2>4. job' = [job EXCEPT ![t] = j]
    BY <1>3 DEF Remove, c
  <2> HIDE DEF j
  <2> QED
    BY <1>3, <2>3, <2>4, JobType DEF Remove, TypeInv, ResolverTypeOK
<1>4. ASSUME NEW d \in Domains, Lookup(t, d) PROVE TypeInv'
  <2> DEFINE j == [job[t] EXCEPT !.stage = "store", !.domain = d, !.todo = @ \ {d}, !.found = dns[d]]
  <2>1. job[t] \in Job /\ dns[d] \in Answers \cup {Absent}
    BY <1>4 DEF Lookup, At, TypeInv, ResolverTypeOK
  <2>2. j \in Job /\ j.stage # "write"
    BY <2>1 DEF Job, Stages
  <2>3. job' = [job EXCEPT ![t] = j]
    BY <1>4 DEF Lookup, TypeInv, ResolverTypeOK
  <2> HIDE DEF j
  <2> QED
    BY <1>4, <2>2, <2>3, JobType DEF Lookup, TypeInv, ResolverTypeOK
<1> QED
  BY <1>1, <1>2, <1>3, <1>4

LEMMA StoreType ==
  ASSUME TypeInv, NEW t \in Tasks, Store(t) \/ Cleanup(t)
  PROVE  TypeInv'
<1>1. job[t] \in Job
  BY DEF Store, Cleanup, At, TypeInv, ResolverTypeOK
<1>2. CASE Store(t)
  <2> DEFINE j == IF job[t].todo # {} THEN [job[t] EXCEPT !.stage = "check"] ELSE AfterChange(job[t])
  <2>1. j \in Job \cup {Absent} /\ (j # Absent => j.stage # "write")
    BY <1>1, AfterChangeType DEF Job, Stages
  <2>2. job' = [job EXCEPT ![t] = j]
    BY <1>2 DEF Store
  <2> HIDE DEF j
  <2>3. resolved' \in [Domains -> Answers \cup {Absent}]
    BY <1>1, <1>2 DEF Store, NewState, TypeInv, ResolverTypeOK, Job
  <2> QED
    BY <1>2, <2>1, <2>2, <2>3, JobType DEF Store, TypeInv, ResolverTypeOK
<1>3. CASE Cleanup(t)
  <2>1. AfterChange(job[t]) \in Job \cup {Absent}
        /\ (AfterChange(job[t]) # Absent => AfterChange(job[t]).stage # "write")
    BY <1>1, AfterChangeType
  <2>2. job' = [job EXCEPT ![t] = AfterChange(job[t])]
    BY <1>3 DEF Cleanup
  <2> QED
    BY <1>3, <2>1, <2>2, JobType DEF Cleanup, TypeInv, ResolverTypeOK
<1> QED
  BY <1>2, <1>3

LEMMA PersistType ==
  ASSUME TypeInv, NEW t \in Tasks, ListDomains(t) \/ OpenFile(t) \/ WriteFile(t)
  PROVE  TypeInv'
<1>1. job[t] \in Job
  BY DEF ListDomains, OpenFile, WriteFile, At, TypeInv, ResolverTypeOK
<1>2. CASE ListDomains(t)
  <2> DEFINE j == [job[t] EXCEPT !.stage = "open", !.list = endpoints]
  <2>1. j \in Job /\ j.stage # "write"
    BY <1>1 DEF Job, Stages, TypeInv, ResolverTypeOK
  <2>2. job' = [job EXCEPT ![t] = j]
    BY <1>2 DEF ListDomains, TypeInv, ResolverTypeOK
  <2> HIDE DEF j
  <2> QED
    BY <1>2, <2>1, <2>2, JobType DEF ListDomains, TypeInv, ResolverTypeOK
<1>3. CASE OpenFile(t)
  <2> DEFINE j == [job[t] EXCEPT !.stage = "write"]
  <2>1. j \in Job
    BY <1>1 DEF Job, Stages
  <2>2. job' = [job EXCEPT ![t] = j]
    BY <1>3 DEF OpenFile, TypeInv, ResolverTypeOK
  <2> HIDE DEF j
  <2>3. file' \in [data: Content, fds: SUBSET Tasks]
    BY <1>3 DEF OpenFile, Truncated, TypeInv, ResolverTypeOK, Content
  <2>4. file' # Absent
    BY <2>3, ResolverAssumption DEF Tasks
  <2> QED
    BY <1>3, <2>1, <2>2, <2>3, <2>4, JobType DEF OpenFile, TypeInv, ResolverTypeOK
<1>4. CASE WriteFile(t)
  <2> DEFINE j == IF t = Boot THEN Checking(endpoints, FALSE) ELSE Absent
  <2>1. j \in Job \cup {Absent} /\ (j # Absent => j.stage # "write")
    BY CheckingType DEF TypeInv, ResolverTypeOK, Checking
  <2>2. job' = [job EXCEPT ![t] = j]
    BY <1>4 DEF WriteFile
  <2> HIDE DEF j
  <2>3. [domains |-> job[t].list] \in List
    BY <1>1 DEF Job, List
  <2>4. PICK data \in Overwrites(file.data, [domains |-> job[t].list]) : file' = Wrote(file, t, data)
    BY <1>4 DEF WriteFile
  <2>5. data \in Content
    BY <2>3, <2>4 DEF Overwrites, Content
  <2>6. file # Absent
    BY <1>4 DEF WriteFile, TypeInv
  <2>7. file' \in [data: Content, fds: SUBSET Tasks]
    BY <2>4, <2>5, <2>6 DEF Wrote, TypeInv, ResolverTypeOK
  <2>8. file' # Absent
    BY <2>7, ResolverAssumption DEF Tasks
  <2> QED
    BY <1>4, <2>1, <2>2, <2>7, <2>8, JobType DEF WriteFile, TypeInv, ResolverTypeOK
<1> QED
  BY <1>2, <1>3, <1>4

LEMMA EnvironmentType ==
  ASSUME TypeInv, Restart \/ \E d \in Domains : Drift(d)
  PROVE  TypeInv'
<1>1. CASE Restart
  <2> DEFINE loaded == Loaded(file)
  <2>1. loaded \in SUBSET Domains
    BY LoadedType DEF TypeInv
  <2> HIDE DEF loaded
  <2>2. endpoints' = Registered(loaded) /\ job' = Started(loaded)
    BY <1>1 DEF Restart, loaded
  <2>3. file' \in [data: Content, fds: SUBSET Tasks] \cup {Absent}
    BY <1>1 DEF Restart, Closed, TypeInv, ResolverTypeOK
  <2> QED
    BY <1>1, <2>1, <2>2, <2>3, StartedType DEF Restart, TypeInv, ResolverTypeOK, At
<1>2. ASSUME NEW d \in Domains, Drift(d) PROVE TypeInv'
  BY <1>2 DEF Drift, TypeInv, ResolverTypeOK, At
<1> QED
  BY <1>1, <1>2

LEMMA TypeStep == TypeInv /\ [Next]_vars => TypeInv'
<1> SUFFICES ASSUME TypeInv, [Next]_vars PROVE TypeInv'
  OBVIOUS
<1>1. ASSUME NEW t \in Tasks, Check(t) \/ Step(t) PROVE TypeInv'
  BY <1>1, CallType, StoreType, PersistType DEF Step
<1>2. ASSUME NEW t \in Callers, NEW d \in Domains, Add(t, d) \/ Remove(t, d) PROVE TypeInv'
  BY <1>2, CallType DEF Tasks
<1>3. CASE UNCHANGED vars
  BY <1>3 DEF vars, TypeInv, ResolverTypeOK, At
<1> QED
  BY <1>1, <1>2, <1>3, EnvironmentType DEF Next

(* The type invariant of the resolver: a task in a call knows its domains,  *)
(* and domains.json is absent, empty, garbled or a list of domains.        *)
THEOREM ResolverTypeCorrect == Spec => []ResolverTypeOK
<1>1. TypeInv => ResolverTypeOK
  BY DEF TypeInv
<1> QED
  BY <1>1, TypeInit, TypeStep, PTL DEF Spec

-----------------------------------------------------------------------------
(* Addresses of removed domains *)

\* The removal of d is about to take its address away.
Cleaning(t, d) == At(t, "cleanup") /\ job[t].domain = d

\* No lookup of a domain that was removed is in progress unless the removal overtook it.
GhostInv ==
  \A d \in Domains \ endpoints :
    d \notin raced =>
      /\ \A t \in Tasks : ~InFlight(t, d)
      /\ resolved[d] # Absent => \E t \in Tasks : Cleaning(t, d)

LEMMA GhostStarted ==
  ASSUME NEW loaded \in SUBSET Domains, NEW t \in Tasks, NEW d \in Domains,
         job = Started(loaded), endpoints = Registered(loaded), d \notin endpoints
  PROVE  ~InFlight(t, d)
BY ResolverAssumption DEF Started, Registered, InFlight, Checking

LEMMA GhostInit == Init => GhostInv
<1> SUFFICES ASSUME Init PROVE GhostInv
  OBVIOUS
<1>1. {} \in SUBSET Domains
  OBVIOUS
<1> QED
  BY <1>1, GhostStarted DEF Init, GhostInv

\* A step of t that neither removes a domain nor stores an answer, and looks up
\* nothing but registered domains that it did not look up before.
LEMMA GhostKept ==
  ASSUME GhostInv, TypeInv, NEW t \in Tasks,
         endpoints \subseteq endpoints', raced' = raced, resolved' = resolved,
         \A u \in Tasks \ {t} : job'[u] = job[u],
         \A d \in Domains : InFlight(t, d)' => InFlight(t, d) \/ d \in endpoints',
         \A d \in Domains : ~Cleaning(t, d)
  PROVE  GhostInv'
<1> SUFFICES ASSUME NEW d \in Domains \ endpoints', d \notin raced'
             PROVE  /\ \A u \in Tasks : ~InFlight(u, d)'
                    /\ resolved'[d] # Absent => \E u \in Tasks : Cleaning(u, d)'
  BY DEF GhostInv
<1>1. /\ \A u \in Tasks : ~InFlight(u, d)
      /\ resolved[d] # Absent => \E u \in Tasks : Cleaning(u, d)
  BY DEF GhostInv
<1>2. \A u \in Tasks : ~InFlight(u, d)'
  BY <1>1 DEF InFlight
<1>3. ASSUME resolved[d] # Absent PROVE \E u \in Tasks : Cleaning(u, d)'
  <2>1. PICK u \in Tasks : Cleaning(u, d)
    BY <1>1, <1>3
  <2>2. u # t
    BY <2>1
  <2> QED
    BY <2>1, <2>2 DEF Cleaning, At
<1> QED
  BY <1>2, <1>3

LEMMA GhostChecks ==
  ASSUME GhostInv, TypeInv, NEW t \in Tasks,
         Check(t) \/ \E d \in Domains : Add(t, d) \/ Lookup(t, d)
  PROVE  GhostInv'
<1>1. CASE Check(t)
  <2>1. \A d \in Domains : InFlight(t, d)' => d \in endpoints'
    BY <1>1 DEF Check, InFlight, Checking, TypeInv, ResolverTypeOK
  <2> QED
    BY <1>1, <2>1, GhostKept DEF Check, Idle, Cleaning, At, TypeInv, ResolverTypeOK
<1>2. ASSUME NEW e \in Domains, Add(t, e) PROVE GhostInv'
  <2>1. \A d \in Domains : InFlight(t, d)' => d \in endpoints'
    BY <1>2 DEF Add, InFlight, Checking, TypeInv, ResolverTypeOK
  <2> QED
    BY <1>2, <2>1, GhostKept DEF Add, MayCall, Idle, Cleaning, At, TypeInv, ResolverTypeOK
<1>3. ASSUME NEW e \in Domains, Lookup(t, e) PROVE GhostInv'
  <2> DEFINE j == [job[t] EXCEPT !.stage = "store", !.domain = e, !.todo = @ \ {e}, !.found = dns[e]]
  <2>01. job[t] \in Job
    BY <1>3 DEF Lookup, At, TypeInv, ResolverTypeOK
  <2>02. j.stage = "store" /\ j.domain = e /\ j.todo = job[t].todo \ {e}
    BY <2>01 DEF Job
  <2>03. job' = [job EXCEPT ![t] = j]
    BY <1>3 DEF Lookup, TypeInv, ResolverTypeOK
  <2> HIDE DEF j
  <2>1. /\ job'[t].stage = "store" /\ job'[t].domain = e /\ job'[t].todo = job[t].todo \ {e}
        /\ \A u \in Tasks \ {t} : job'[u] = job[u]
    BY <2>02, <2>03 DEF TypeInv, ResolverTypeOK
  <2>2. \A d \in Domains : InFlight(t, d)' => InFlight(t, d)
    BY <1>3, <2>1 DEF Lookup, At, InFlight
  <2> QED
    BY <1>3, <2>1, <2>2, GhostKept DEF Lookup, Cleaning, At
<1> QED
  BY <1>1, <1>2, <1>3

LEMMA GhostRemove ==
  ASSUME GhostInv, TypeInv, NEW t \in Tasks, NEW e \in Domains, Remove(t, e)
  PROVE  GhostInv'
<1> DEFINE c == Checking({}, Removes(e))
           j == [c EXCEPT !.stage = "cleanup", !.domain = e]
<1>1. Removes(e) \in BOOLEAN
  BY DEF Removes
<1>2. c \in Job
  BY <1>1, CheckingType
<1>3. j \in Job /\ j.stage = "cleanup" /\ j.domain = e /\ j.todo = c.todo
  BY <1>2 DEF Job, Stages
<1>4. c.todo = {}
  BY DEF Checking
<1> HIDE DEF c, j
<1>5. job' = [job EXCEPT ![t] = j] /\ job[t] = Absent
  BY DEF Remove, MayCall, Idle, j, c
<1>6. j # Absent
  BY <1>3, ResolverAssumption
<1>7. job'[t] = j /\ \A u \in Tasks \ {t} : job'[u] = job[u]
  BY <1>5 DEF TypeInv, ResolverTypeOK
<1>8. \A d \in Domains : ~InFlight(t, d)'
  BY <1>3, <1>4, <1>7 DEF InFlight
<1>9. \A d \in Domains, u \in Tasks : InFlight(u, d)' => InFlight(u, d)
  BY <1>7, <1>8 DEF InFlight
<1>10. \A u \in Tasks, d \in Domains : Cleaning(u, d) => Cleaning(u, d)'
  BY <1>5, <1>7 DEF Cleaning, At
<1>11. Cleaning(t, e)'
  BY <1>3, <1>6, <1>7 DEF Cleaning, At
<1> SUFFICES ASSUME NEW d \in Domains \ endpoints', d \notin raced'
             PROVE  /\ \A u \in Tasks : ~InFlight(u, d)'
                    /\ resolved'[d] # Absent => \E u \in Tasks : Cleaning(u, d)'
  BY DEF GhostInv
<1>12. CASE d = e
  <2>1. \A u \in Tasks : ~InFlight(u, d)
    BY <1>12 DEF Remove
  <2> QED
    BY <1>9, <1>11, <1>12, <2>1
<1>13. CASE d # e
  <2>1. d \notin endpoints /\ d \notin raced /\ resolved' = resolved
    BY <1>13 DEF Remove
  <2>2. /\ \A u \in Tasks : ~InFlight(u, d)
        /\ resolved[d] # Absent => \E u \in Tasks : Cleaning(u, d)
    BY <2>1 DEF GhostInv
  <2> QED
    BY <1>9, <1>10, <2>1, <2>2
<1> QED
  BY <1>12, <1>13

LEMMA AfterChangeIdle ==
  ASSUME NEW j \in Job
  PROVE  /\ AfterChange(j) = Absent \/ AfterChange(j).stage = "list"
         /\ AfterChange(j) # Absent => AfterChange(j).todo = j.todo /\ AfterChange(j).domain = j.domain
BY DEF AfterChange, Job

LEMMA GhostStore ==
  ASSUME GhostInv, TypeInv, NEW t \in Tasks, Store(t)
  PROVE  GhostInv'
<1> DEFINE j == IF job[t].todo # {} THEN [job[t] EXCEPT !.stage = "check"] ELSE AfterChange(job[t])
<1>1. job[t] \in Job /\ job[t].stage = "store" /\ job[t] # Absent
  BY DEF Store, At, TypeInv, ResolverTypeOK
<1>2. j # Absent => j.todo = job[t].todo /\ j.stage # "store"
  BY <1>1, AfterChangeIdle DEF Job
<1> HIDE DEF j
<1>3. job'[t] = j /\ \A u \in Tasks \ {t} : job'[u] = job[u]
  BY DEF Store, j, TypeInv, ResolverTypeOK
<1>4. \A u \in Tasks, d \in Domains : InFlight(u, d)' => InFlight(u, d)
  BY <1>1, <1>2, <1>3 DEF InFlight
<1> SUFFICES ASSUME NEW d \in Domains \ endpoints', d \notin raced'
             PROVE  /\ \A u \in Tasks : ~InFlight(u, d)'
                    /\ resolved'[d] # Absent => \E u \in Tasks : Cleaning(u, d)'
  BY DEF GhostInv
<1>5. d \notin endpoints /\ d \notin raced
  BY DEF Store
<1>6. /\ \A u \in Tasks : ~InFlight(u, d)
      /\ resolved[d] # Absent => \E u \in Tasks : Cleaning(u, d)
  BY <1>5 DEF GhostInv
<1>7. job[t].domain # d
  BY <1>1, <1>6 DEF InFlight
<1>8. resolved'[d] = resolved[d]
  BY <1>7 DEF Store, TypeInv, ResolverTypeOK
<1>9. \A u \in Tasks : Cleaning(u, d) => Cleaning(u, d)'
  BY <1>1, <1>3 DEF Cleaning, At
<1> QED
  BY <1>4, <1>6, <1>8, <1>9

LEMMA GhostCleanup ==
  ASSUME GhostInv, TypeInv, NEW t \in Tasks, Cleanup(t)
  PROVE  GhostInv'
<1>1. job[t] \in Job /\ job[t].stage = "cleanup"
  BY DEF Cleanup, At, TypeInv, ResolverTypeOK
<1>2. job'[t] = AfterChange(job[t]) /\ \A u \in Tasks \ {t} : job'[u] = job[u]
  BY DEF Cleanup, TypeInv, ResolverTypeOK
<1>3. job[t] # Absent
  BY DEF Cleanup, At
<1>4. \A u \in Tasks, d \in Domains : InFlight(u, d)' => InFlight(u, d)
  BY <1>1, <1>2, <1>3, AfterChangeIdle DEF InFlight
<1> SUFFICES ASSUME NEW d \in Domains \ endpoints', d \notin raced'
             PROVE  /\ \A u \in Tasks : ~InFlight(u, d)'
                    /\ resolved'[d] # Absent => \E u \in Tasks : Cleaning(u, d)'
  BY DEF GhostInv
<1>5. d \notin endpoints /\ d \notin raced
  BY DEF Cleanup
<1>6. /\ \A u \in Tasks : ~InFlight(u, d)
      /\ resolved[d] # Absent => \E u \in Tasks : Cleaning(u, d)
  BY <1>5 DEF GhostInv
<1>7. CASE job[t].domain = d
  BY <1>4, <1>6, <1>7 DEF Cleanup, TypeInv, ResolverTypeOK
<1>8. CASE job[t].domain # d
  <2>1. resolved'[d] = resolved[d]
    BY <1>8 DEF Cleanup, TypeInv, ResolverTypeOK
  <2>2. \A u \in Tasks : Cleaning(u, d) => Cleaning(u, d)'
    BY <1>2, <1>8 DEF Cleaning, At
  <2> QED
    BY <1>4, <1>6, <2>1, <2>2
<1> QED
  BY <1>7, <1>8

LEMMA GhostPersist ==
  ASSUME GhostInv, TypeInv, NEW t \in Tasks, ListDomains(t) \/ OpenFile(t) \/ WriteFile(t)
  PROVE  GhostInv'
<1>1. job[t] \in Job /\ job[t].stage \in {"list", "open", "write"} /\ job[t] # Absent
  BY DEF ListDomains, OpenFile, WriteFile, At, TypeInv, ResolverTypeOK
<1>2. /\ endpoints' = endpoints /\ raced' = raced /\ resolved' = resolved
      /\ \A u \in Tasks \ {t} : job'[u] = job[u]
  BY DEF ListDomains, OpenFile, WriteFile, TypeInv, ResolverTypeOK
<1>3. \A d \in Domains : InFlight(t, d)' => InFlight(t, d) \/ d \in endpoints'
  <2>1. CASE ListDomains(t) \/ OpenFile(t)
    <3>1. job'[t].todo = job[t].todo /\ job'[t].stage # "store"
      BY <1>1, <2>1 DEF ListDomains, OpenFile, TypeInv, ResolverTypeOK, Job
    <3> QED
      BY <1>1, <3>1 DEF InFlight
  <2>2. CASE WriteFile(t)
    <3>1. job'[t] = Absent \/ job'[t] = Checking(endpoints, FALSE)
      BY <2>2 DEF WriteFile, TypeInv, ResolverTypeOK
    <3> QED
      BY <1>2, <3>1 DEF InFlight, Checking
  <2> QED
    BY <2>1, <2>2
<1>4. \A d \in Domains : ~Cleaning(t, d)
  BY <1>1 DEF Cleaning, At
<1> QED
  BY <1>2, <1>3, <1>4, GhostKept

LEMMA GhostEnvironment ==
  ASSUME GhostInv, TypeInv, Restart \/ \E d \in Domains : Drift(d)
  PROVE  GhostInv'
<1>1. CASE Restart
  <2>1. Loaded(file) \in SUBSET Domains
    BY LoadedType DEF TypeInv
  <2>2. \A d \in Domains \ endpoints', t \in Tasks : ~InFlight(t, d)'
    BY <1>1, <2>1, ResolverAssumption DEF Restart, Started, Registered, InFlight, Checking
  <2> QED
    BY <1>1, <2>2 DEF Restart, GhostInv
<1>2. ASSUME NEW d \in Domains, Drift(d) PROVE GhostInv'
  BY <1>2 DEF Drift, GhostInv, InFlight, Cleaning, At
<1> QED
  BY <1>1, <1>2

LEMMA GhostStep == GhostInv /\ TypeInv /\ [Next]_vars => GhostInv'
<1> SUFFICES ASSUME GhostInv, TypeInv, [Next]_vars PROVE GhostInv'
  OBVIOUS
<1>1. ASSUME NEW t \in Tasks, Check(t) \/ Step(t) PROVE GhostInv'
  BY <1>1, GhostChecks, GhostStore, GhostCleanup, GhostPersist DEF Step
<1>2. ASSUME NEW t \in Callers, NEW d \in Domains, Add(t, d) \/ Remove(t, d) PROVE GhostInv'
  BY <1>2, GhostChecks, GhostRemove DEF Tasks
<1>3. CASE UNCHANGED vars
  BY <1>3 DEF vars, GhostInv, InFlight, Cleaning, At
<1> QED
  BY <1>1, <1>2, <1>3, GhostEnvironment DEF Next

(* An address of a domain that was removed is in use only while a removal  *)
(* of it goes on, or when a removal overtook a lookup, however many calls  *)
(* and checks overlap.                                                     *)
THEOREM GhostsRacedCorrect == Spec => []GhostsRaced
<1>1. GhostInv => GhostsRaced
  BY DEF GhostInv, GhostsRaced, Cleaning
<1> QED
  BY <1>1, TypeInit, TypeStep, GhostInit, GhostStep, PTL DEF Spec

-----------------------------------------------------------------------------
(* The last good address *)

(* A registered domain that nobody is removing keeps an address once it has *)
(* one, whatever DNS answers and whatever calls overlap.                   *)
THEOREM KeepsLastKnownGoodCorrect == Spec => KeepsLastKnownGood
<1> DEFINE Keeps == \A d \in endpoints :
                      /\ resolved[d] # Absent
                      /\ ~Restart
                      /\ ~\E t \in Tasks : At(t, "cleanup") /\ job[t].domain = d
                      => resolved'[d] # Absent
<1>1. TypeInv /\ [Next]_vars => Keeps
  <2> SUFFICES ASSUME TypeInv, [Next]_vars, NEW d \in endpoints, resolved[d] # Absent, ~Restart,
                      ~\E t \in Tasks : At(t, "cleanup") /\ job[t].domain = d
               PROVE  resolved'[d] # Absent
    OBVIOUS
  <2>1. ASSUME NEW t \in Tasks, Store(t) PROVE resolved'[d] # Absent
    BY <2>1 DEF Store, NewState, TypeInv, ResolverTypeOK
  <2>2. ASSUME NEW t \in Tasks, Cleanup(t) PROVE resolved'[d] # Absent
    BY <2>2 DEF Cleanup, TypeInv, ResolverTypeOK
  <2>3. ASSUME UNCHANGED resolved PROVE resolved'[d] # Absent
    BY <2>3
  <2>4. ASSUME NEW t \in Tasks, Check(t) \/ Step(t) PROVE resolved'[d] # Absent
    BY <2>1, <2>2, <2>3, <2>4 DEF Check, Step, Lookup, ListDomains, OpenFile, WriteFile
  <2>5. ASSUME NEW t \in Callers, NEW e \in Domains, Add(t, e) \/ Remove(t, e)
        PROVE  resolved'[d] # Absent
    BY <2>3, <2>5 DEF Add, Remove
  <2>6. ASSUME NEW e \in Domains, Drift(e) PROVE resolved'[d] # Absent
    BY <2>3, <2>6 DEF Drift
  <2> QED
    BY <2>3, <2>4, <2>5, <2>6 DEF Next, vars
<1> QED
  BY <1>1, TypeInit, TypeStep, PTL DEF Spec, KeepsLastKnownGood

-----------------------------------------------------------------------------
(* The file between calls *)

Matches == file # Absent /\ file.data = [domains |-> endpoints]

\* t changed the list and persists it before it returns.
Changing(t) == job[t] # Absent /\ job[t].saves

\* What the only such call knows of the list and the file at each of its stages.
Knows(t) ==
  /\ job[t].stage \in {"open", "write"} => job[t].list = endpoints
  /\ job[t].stage = "write" => file # Absent /\ file.data = Empty

Persisting(j) == j # Absent /\ j.stage \in {"list", "open", "write"}

\* Only a call that changed the list persists it.  When the last change had the file
\* to itself, its call is the only one; once it returned, the file holds the list.
SaverInv ==
  /\ \A t \in Tasks : Persisting(job[t]) => job[t].saves
  /\ alone => /\ \A t, u \in Tasks : Changing(t) /\ Changing(u) => t = u
              /\ \A t \in Tasks : Changing(t) => Knows(t)
              /\ ~Saving => Matches

LEMMA SavingIsChanging == Saving <=> \E t \in Tasks : Changing(t)
BY DEF Saving, Changing

\* The boot task checks what the file listed, or saves the default domain.
LEMMA SaverStarted ==
  ASSUME NEW loaded \in SUBSET Domains
  PROVE  /\ \A t \in Tasks : t # Boot => Started(loaded)[t] = Absent
         /\ Started(loaded)[Boot] # Absent
         /\ Started(loaded)[Boot].stage = "check"
         /\ loaded = {} => Started(loaded)[Boot].saves = TRUE
<1>1. \A t \in Tasks : t # Boot => Started(loaded)[t] = Absent
  BY DEF Started
<1>2. Boot \in Tasks
  BY DEF Tasks
<1>3. Started(loaded)[Boot] = IF loaded = {} THEN Checking({Default}, TRUE) ELSE Checking(loaded, FALSE)
  BY <1>2 DEF Started
<1>4. Started(loaded)[Boot] # Absent
  <2>1. {Default} \in SUBSET Domains
    BY ResolverAssumption
  <2> QED
    BY <1>3, <2>1, CheckingType, ResolverAssumption
<1>5. /\ Started(loaded)[Boot].stage = "check"
      /\ loaded = {} => Started(loaded)[Boot].saves = TRUE
  BY <1>3 DEF Checking
<1> QED
  BY <1>1, <1>4, <1>5

LEMMA SaverInit == Init => SaverInv
<1> SUFFICES ASSUME Init PROVE SaverInv
  OBVIOUS
<1>1. /\ \A t \in Tasks : t # Boot => job[t] = Absent
      /\ job[Boot] # Absent /\ job[Boot].stage = "check" /\ job[Boot].saves = TRUE
  <2>1. {} \in SUBSET Domains
    OBVIOUS
  <2> QED
    BY <2>1, SaverStarted DEF Init
<1>2. Boot \in Tasks
  BY DEF Tasks
<1>3. Saving
  BY <1>1, <1>2 DEF Saving
<1>4. \A t \in Tasks : Changing(t) => t = Boot
  BY <1>1 DEF Changing
<1>5. Knows(Boot)
  BY <1>1 DEF Knows
<1>6. \A t \in Tasks : Persisting(job[t]) => job[t].saves
  BY <1>1 DEF Persisting
<1> QED
  BY <1>3, <1>4, <1>5, <1>6 DEF SaverInv

\* What no other task does, a step of t does not change for them.
LEMMA SaverOthers ==
  ASSUME SaverInv, NEW t \in Tasks,
         \A u \in Tasks \ {t} : job'[u] = job[u],
         Persisting(job'[t]) => job'[t].saves
  PROVE  /\ \A u \in Tasks : Persisting(job'[u]) => job'[u].saves
         /\ \A u \in Tasks \ {t} : Changing(u)' <=> Changing(u)
<1>1. \A u \in Tasks : Persisting(job[u]) => job[u].saves
  BY DEF SaverInv
<1>2. \A u \in Tasks : Persisting(job'[u]) => job'[u].saves
  <2> TAKE u \in Tasks
  <2>1. CASE u = t
    BY <2>1
  <2>2. CASE u # t
    BY <1>1, <2>2
  <2> QED
    BY <2>1, <2>2
<1>3. \A u \in Tasks \ {t} : Changing(u)' <=> Changing(u)
  BY DEF Changing
<1> QED
  BY <1>2, <1>3

\* A step of a task that does not change the list.
LEMMA SaverKept ==
  ASSUME SaverInv, NEW t \in Tasks,
         endpoints' = endpoints, file' = file, alone' = alone,
         \A u \in Tasks \ {t} : job'[u] = job[u],
         Persisting(job'[t]) => job'[t].saves,
         ~Changing(t), ~Changing(t)'
  PROVE  SaverInv'
<1>1. /\ \A u \in Tasks : Persisting(job'[u]) => job'[u].saves
      /\ \A u \in Tasks : Changing(u)' <=> Changing(u)
  BY SaverOthers
<1>2. Saving' <=> Saving
  BY <1>1 DEF Saving, Changing
<1>3. Matches' <=> Matches
  BY DEF Matches
<1>4. ASSUME NEW u \in Tasks, Changing(u), Knows(u) PROVE Knows(u)'
  BY <1>4 DEF Knows
<1>5. (\A u \in Tasks : Persisting(job[u]) => job[u].saves)'
  BY <1>1 DEF Persisting
<1>6. ASSUME alone'
      PROVE  /\ \A u, v \in Tasks : Changing(u)' /\ Changing(v)' => u = v
             /\ \A u \in Tasks : Changing(u)' => Knows(u)'
             /\ Saving' \/ Matches'
  BY <1>1, <1>2, <1>3, <1>4, <1>6 DEF SaverInv
<1> QED
  BY <1>5, <1>6 DEF SaverInv

\* A step of the only task that changes the list, or one that overlaps another.
LEMMA SaverMoves ==
  ASSUME SaverInv, NEW t \in Tasks,
         \A u \in Tasks \ {t} : job'[u] = job[u],
         Persisting(job'[t]) => job'[t].saves,
         alone' => \A u \in Tasks \ {t} : ~Changing(u),
         alone' /\ Changing(t)' => Knows(t)',
         alone' /\ ~Changing(t)' => Matches'
  PROVE  SaverInv'
<1>1. /\ \A u \in Tasks : Persisting(job'[u]) => job'[u].saves
      /\ \A u \in Tasks \ {t} : Changing(u)' <=> Changing(u)
  BY SaverOthers
<1>2. (\A u \in Tasks : Persisting(job[u]) => job[u].saves)'
  BY <1>1 DEF Persisting
<1>3. Changing(t)' => Saving'
  BY DEF Saving, Changing
<1>4. ASSUME alone'
      PROVE  /\ \A u, v \in Tasks : Changing(u)' /\ Changing(v)' => u = v
             /\ \A u \in Tasks : Changing(u)' => Knows(u)'
             /\ Saving' \/ Matches'
  BY <1>1, <1>3, <1>4
<1> QED
  BY <1>2, <1>4 DEF SaverInv

LEMMA SaverAdd ==
  ASSUME SaverInv, TypeInv, NEW t \in Callers, NEW d \in Domains, Add(t, d)
  PROVE  SaverInv'
<1>1. t \in Tasks
  BY DEF Tasks
<1>2. job'[t] = Checking({d}, TRUE) /\ \A u \in Tasks \ {t} : job'[u] = job[u]
  BY <1>1 DEF Add, TypeInv, ResolverTypeOK
<1>3. job'[t].stage = "check" /\ job'[t].saves = TRUE
  BY <1>2 DEF Checking
<1>4. job'[t] # Absent
  <2>1. {d} \in SUBSET Domains
    OBVIOUS
  <2> QED
    BY <1>2, <2>1, CheckingType, ResolverAssumption
<1>5. Changing(t)' /\ Knows(t)'
  BY <1>3, <1>4 DEF Changing, Knows
<1>6. alone' => \A u \in Tasks \ {t} : ~Changing(u)
  BY SavingIsChanging DEF Add
<1> QED
  BY <1>1, <1>2, <1>3, <1>5, <1>6, SaverMoves

LEMMA SaverRemove ==
  ASSUME SaverInv, TypeInv, NEW t \in Callers, NEW d \in Domains, Remove(t, d)
  PROVE  SaverInv'
<1> DEFINE c == Checking({}, Removes(d))
           j == [c EXCEPT !.stage = "cleanup", !.domain = d]
<1>1. t \in Tasks /\ job[t] = Absent
  BY DEF Tasks, Remove, MayCall, Idle
<1>2. Removes(d) \in BOOLEAN /\ {} \in SUBSET Domains
  BY DEF Removes
<1>3. c \in Job /\ c.saves = Removes(d)
  BY <1>2, CheckingType DEF Checking
<1> HIDE DEF c
<1>4. j \in Job /\ j.stage = "cleanup" /\ j.saves = Removes(d)
  BY <1>3 DEF Job, Stages
<1>5. job' = [job EXCEPT ![t] = j]
  BY DEF Remove, c
<1> HIDE DEF j
<1>6. job'[t] = j /\ \A u \in Tasks \ {t} : job'[u] = job[u]
  BY <1>1, <1>5 DEF TypeInv, ResolverTypeOK
<1>7. job'[t] # Absent
  BY <1>4, <1>6, ResolverAssumption
<1>8. ~Persisting(job'[t])
  BY <1>4, <1>6 DEF Persisting
<1>9. CASE Removes(d)
  <2>1. Changing(t)' /\ Knows(t)'
    BY <1>4, <1>6, <1>7, <1>9 DEF Changing, Knows
  <2>2. alone' => \A u \in Tasks \ {t} : ~Changing(u)
    BY <1>9, SavingIsChanging DEF Remove
  <2> QED
    BY <1>1, <1>6, <1>8, <2>1, <2>2, SaverMoves
<1>10. CASE ~Removes(d)
  <2>1. endpoints' = endpoints /\ file' = file /\ alone' = alone
    BY <1>10 DEF Remove, Removes
  <2>2. ~Changing(t) /\ ~Changing(t)'
    BY <1>1, <1>4, <1>6, <1>10 DEF Changing
  <2> QED
    BY <1>1, <1>6, <1>8, <2>1, <2>2, SaverKept
<1> QED
  BY <1>9, <1>10

LEMMA SaverCheck ==
  ASSUME SaverInv, TypeInv, NEW t \in Tasks, Check(t)
  PROVE  SaverInv'
<1>1. job[t] = Absent /\ endpoints' = endpoints /\ file' = file /\ alone' = alone
  BY DEF Check, Idle
<1>2. job'[t] = Checking(endpoints, FALSE) /\ \A u \in Tasks \ {t} : job'[u] = job[u]
  BY DEF Check, TypeInv, ResolverTypeOK
<1>3. job'[t].stage = "check" /\ job'[t].saves = FALSE
  BY <1>2 DEF Checking
<1>4. ~Changing(t) /\ ~Changing(t)' /\ ~Persisting(job'[t])
  BY <1>1, <1>3 DEF Changing, Persisting
<1> QED
  BY <1>1, <1>2, <1>4, SaverKept

LEMMA AfterChangeSaves ==
  ASSUME NEW j \in Job
  PROVE  /\ j.saves => AfterChange(j) \in Job /\ AfterChange(j).stage = "list" /\ AfterChange(j).saves
         /\ ~j.saves => AfterChange(j) = Absent
BY DEF AfterChange, Job, Stages

LEMMA SaverLooks ==
  ASSUME SaverInv, TypeInv, NEW t \in Tasks,
         Store(t) \/ Cleanup(t) \/ \E d \in Domains : Lookup(t, d)
  PROVE  SaverInv'
<1>1. job[t] # Absent /\ job[t].stage \in {"check", "store", "cleanup"}
  BY DEF Store, Cleanup, Lookup, At
<1>2. job[t] \in Job
  BY <1>1 DEF TypeInv, ResolverTypeOK
<1>3. /\ endpoints' = endpoints /\ file' = file /\ alone' = alone
      /\ \A u \in Tasks \ {t} : job'[u] = job[u]
  BY DEF Store, Cleanup, Lookup, TypeInv, ResolverTypeOK
<1>4. \/ /\ job'[t] \in Job /\ job'[t].stage \in {"check", "store"}
         /\ job'[t].saves = job[t].saves
      \/ job'[t] = AfterChange(job[t])
  <2>1. ASSUME NEW d \in Domains, Lookup(t, d)
        PROVE  job'[t] \in Job /\ job'[t].stage = "store" /\ job'[t].saves = job[t].saves
    <3> DEFINE j == [job[t] EXCEPT !.stage = "store", !.domain = d, !.todo = @ \ {d}, !.found = dns[d]]
    <3>1. dns[d] \in Answers \cup {Absent}
      BY DEF TypeInv, ResolverTypeOK
    <3>2. j \in Job /\ j.stage = "store" /\ j.saves = job[t].saves
      BY <1>2, <3>1 DEF Job, Stages
    <3>3. job' = [job EXCEPT ![t] = j]
      BY <2>1 DEF Lookup, TypeInv, ResolverTypeOK
    <3> HIDE DEF j
    <3> QED
      BY <3>2, <3>3 DEF TypeInv, ResolverTypeOK
  <2>2. CASE Store(t)
    <3> DEFINE j == [job[t] EXCEPT !.stage = "check"]
    <3>1. j \in Job /\ j.stage = "check" /\ j.saves = job[t].saves
      BY <1>2 DEF Job, Stages
    <3> HIDE DEF j
    <3>2. job'[t] = j \/ job'[t] = AfterChange(job[t])
      BY <2>2 DEF Store, TypeInv, ResolverTypeOK, j
    <3> QED
      BY <3>1, <3>2
  <2>3. CASE Cleanup(t)
    BY <2>3 DEF Cleanup, TypeInv, ResolverTypeOK
  <2> QED
    BY <2>1, <2>2, <2>3
<1>5. CASE job[t].saves
  <2>1. job'[t] \in Job /\ job'[t].stage \in {"check", "store", "list"} /\ job'[t].saves
    BY <1>2, <1>4, <1>5, AfterChangeSaves
  <2>2. Changing(t) /\ Changing(t)' /\ Knows(t)'
    BY <1>1, <1>5, <2>1, ResolverAssumption DEF Changing, Knows
  <2>3. alone' => \A u \in Tasks \ {t} : ~Changing(u)
    BY <1>3, <2>2 DEF SaverInv
  <2> QED
    BY <1>3, <2>1, <2>2, <2>3, SaverMoves
<1>6. CASE ~job[t].saves
  <2>1. \/ job'[t] = Absent
        \/ job'[t].stage \in {"check", "store"} /\ ~job'[t].saves
    BY <1>2, <1>4, <1>6, AfterChangeSaves
  <2>2. ~Changing(t) /\ ~Changing(t)' /\ ~Persisting(job'[t])
    BY <1>6, <2>1 DEF Changing, Persisting
  <2> QED
    BY <1>3, <2>2, SaverKept
<1> QED
  BY <1>5, <1>6

LEMMA SaverPersist ==
  ASSUME SaverInv, TypeInv, NEW t \in Tasks, ListDomains(t) \/ OpenFile(t) \/ WriteFile(t)
  PROVE  SaverInv'
<1>1. job[t] # Absent /\ job[t].stage \in {"list", "open", "write"}
  BY DEF ListDomains, OpenFile, WriteFile, At
<1>2. job[t] \in Job
  BY <1>1 DEF TypeInv, ResolverTypeOK
<1>3. /\ endpoints' = endpoints /\ alone' = alone
      /\ \A u \in Tasks \ {t} : job'[u] = job[u]
  BY DEF ListDomains, OpenFile, WriteFile, TypeInv, ResolverTypeOK
<1>4. job[t].saves = TRUE
  BY <1>1, <1>2 DEF SaverInv, Persisting, Job
<1>5. Changing(t)
  BY <1>1, <1>4 DEF Changing
<1>6. alone' => Knows(t) /\ \A u \in Tasks \ {t} : ~Changing(u)
  BY <1>3, <1>5 DEF SaverInv
<1>7. CASE ListDomains(t)
  <2> DEFINE j == [job[t] EXCEPT !.stage = "open", !.list = endpoints]
  <2>1. j \in Job /\ j.stage = "open" /\ j.list = endpoints /\ j.saves = TRUE
    BY <1>2, <1>4 DEF Job, Stages, TypeInv, ResolverTypeOK
  <2>2. job' = [job EXCEPT ![t] = j]
    BY <1>7 DEF ListDomains, TypeInv, ResolverTypeOK
  <2> HIDE DEF j
  <2>3. job'[t] = j
    BY <2>2 DEF TypeInv, ResolverTypeOK
  <2>4. Changing(t)' /\ Knows(t)'
    BY <1>3, <2>1, <2>3, ResolverAssumption DEF Changing, Knows
  <2> QED
    BY <1>3, <1>6, <2>1, <2>3, <2>4, SaverMoves
<1>8. CASE OpenFile(t)
  <2> DEFINE j == [job[t] EXCEPT !.stage = "write"]
  <2>1. j \in Job /\ j.stage = "write" /\ j.list = job[t].list /\ j.saves = TRUE
    BY <1>2, <1>4 DEF Job, Stages
  <2>2. job' = [job EXCEPT ![t] = j]
    BY <1>8 DEF OpenFile, TypeInv, ResolverTypeOK
  <2> HIDE DEF j
  <2>3. job'[t] = j /\ job'[t] # Absent
    BY <2>1, <2>2, ResolverAssumption DEF TypeInv, ResolverTypeOK
  <2>4. TypeInv'
    BY <1>8, PersistType
  <2>5. file' # Absent /\ file'.data = Empty
    BY <1>8, <2>1, <2>3, <2>4 DEF OpenFile, Truncated, TypeInv, At
  <2>6. Changing(t)'
    BY <2>1, <2>3 DEF Changing
  <2>7. alone' => Knows(t)'
    BY <1>3, <1>6, <1>8, <2>1, <2>3, <2>5 DEF Knows, OpenFile, At
  <2> QED
    BY <1>3, <1>6, <2>1, <2>3, <2>6, <2>7, SaverMoves
<1>9. CASE WriteFile(t)
  <2>1. job'[t] = Absent \/ job'[t] = Checking(endpoints, FALSE)
    BY <1>9 DEF WriteFile, TypeInv, ResolverTypeOK
  <2>2. ~Changing(t)' /\ ~Persisting(job'[t])
    BY <2>1 DEF Checking, Changing, Persisting
  <2>3. ASSUME alone' PROVE Matches'
    <3>1. job[t].list = endpoints /\ file # Absent /\ file.data = Empty
      BY <1>6, <1>9, <2>3 DEF WriteFile, At, Knows
    <3>2. file' = [data |-> [domains |-> endpoints], fds |-> file.fds \ {t}]
      BY <1>9, <3>1 DEF WriteFile, Overwrites, Wrote
    <3>3. file' # Absent
      <4>1. file.fds \ {t} \in SUBSET Tasks
        BY <3>1 DEF TypeInv, ResolverTypeOK
      <4>2. [domains |-> endpoints] \in Content
        BY DEF Content, List, TypeInv, ResolverTypeOK
      <4> QED
        BY <3>2, <4>1, <4>2, ResolverAssumption
    <3> QED
      BY <1>3, <3>2, <3>3 DEF Matches
  <2> QED
    BY <1>3, <1>6, <2>2, <2>3, SaverMoves
<1> QED
  BY <1>7, <1>8, <1>9

LEMMA SaverEnvironment ==
  ASSUME SaverInv, TypeInv, Restart \/ \E d \in Domains : Drift(d)
  PROVE  SaverInv'
<1>1. CASE Restart
  <2> DEFINE loaded == Loaded(file)
  <2>1. loaded \in SUBSET Domains
    BY LoadedType DEF TypeInv
  <2>2. loaded # {} => file # Absent /\ file.data = [domains |-> loaded]
    BY DEF Loaded, List
  <2>3. loaded # {} => Matches'
    <3>1. SUFFICES ASSUME loaded # {} PROVE Matches'
      OBVIOUS
    <3>2. endpoints' = loaded
      BY <1>1, <3>1 DEF Restart, Registered
    <3>3. file' = [file EXCEPT !.fds = {}] /\ file \in [data: Content, fds: SUBSET Tasks]
      BY <1>1, <2>2, <3>1 DEF Restart, Closed, TypeInv, ResolverTypeOK
    <3>4. file' \in [data: Content, fds: SUBSET Tasks] /\ file'.data = file.data
      BY <3>3
    <3>5. file' # Absent
      BY <3>4, ResolverAssumption
    <3> QED
      BY <2>2, <3>1, <3>2, <3>4, <3>5 DEF Matches
  <2> HIDE DEF loaded
  <2>4. job' = Started(loaded)
    BY <1>1 DEF Restart, loaded
  <2>5. /\ \A t \in Tasks : t # Boot => job'[t] = Absent
        /\ job'[Boot].stage = "check"
        /\ loaded = {} => job'[Boot].saves = TRUE
        /\ job'[Boot] # Absent
    BY <2>1, <2>4, SaverStarted
  <2>6. Boot \in Tasks
    BY DEF Tasks
  <2>7. \A t \in Tasks : Changing(t)' => t = Boot
    BY <2>5 DEF Changing
  <2>8. Knows(Boot)'
    BY <2>5 DEF Knows
  <2>9. (\A t \in Tasks : Persisting(job[t]) => job[t].saves)'
    BY <2>5 DEF Persisting
  <2>10. Saving' \/ Matches'
    BY <2>3, <2>5, <2>6 DEF Saving
  <2> QED
    BY <2>7, <2>8, <2>9, <2>10 DEF SaverInv
<1>2. ASSUME NEW d \in Domains, Drift(d) PROVE SaverInv'
  BY <1>2 DEF Drift, SaverInv, Saving, Changing, Persisting, Knows, Matches
<1> QED
  BY <1>1, <1>2

LEMMA SaverStep == SaverInv /\ TypeInv /\ [Next]_vars => SaverInv'
<1> SUFFICES ASSUME SaverInv, TypeInv, [Next]_vars PROVE SaverInv'
  OBVIOUS
<1>1. ASSUME NEW t \in Tasks, Check(t) \/ Step(t) PROVE SaverInv'
  BY <1>1, SaverCheck, SaverLooks, SaverPersist DEF Step
<1>2. ASSUME NEW t \in Callers, NEW d \in Domains, Add(t, d) \/ Remove(t, d) PROVE SaverInv'
  BY <1>2, SaverAdd, SaverRemove
<1>3. CASE UNCHANGED vars
  BY <1>3 DEF vars, SaverInv, Saving, Changing, Persisting, Knows, Matches
<1> QED
  BY <1>1, <1>2, <1>3, SaverEnvironment DEF Next

(* Whatever REST calls overlap, and however the worker's checks, failing    *)
(* lookups and restarts, in the middle of a write included, interleave:    *)
(* domains.json holds the registered domains whenever no call that changed *)
(* the list is under way and none overlapped the last of them.             *)
THEOREM FileMatchesCorrect == Spec => []FileMatches
<1>1. SaverInv => FileMatches
  BY DEF SaverInv, FileMatches, Matches
<1> QED
  BY <1>1, TypeInit, TypeStep, SaverInit, SaverStep, PTL DEF Spec
=============================================================================
