---------------------------- MODULE RootResolver ----------------------------
(***************************************************************************)
(* The dynamic resolver of root domains (resolver.rs): the domains that    *)
(* are registered, the addresses they were resolved to, and domains.json.  *)
(*                                                                         *)
(* The addresses in `resolved` are those the daemon dials and polls for    *)
(* configuration (main.rs:996, transport.rs:245, 287).  A periodic check,  *)
(* and a check asked for over REST, work through a snapshot of the domains *)
(* and await DNS between reading the one map and writing the other; REST   *)
(* calls add and remove domains meanwhile, and persist the list they read  *)
(* some time after their change.                                           *)
(*                                                                         *)
(* Simplifications: a domain has one port, so remove_domain() and          *)
(* remove_domain_any() are the same; an answer of DNS stands for the       *)
(* validated, sorted list of addresses, and Absent for a failed or empty   *)
(* lookup; domains.json is the only configured source; failure counters    *)
(* and timestamps, which nothing reads, are left out.                      *)
(***************************************************************************)
EXTENDS Files

CONSTANTS
  Domains,
  Default,    \* the community domain that is registered when no source names one
  Answers,    \* what a domain may resolve to
  Boot,       \* the task that runs load_sources() before the others start
  Checkers,   \* the worker, and REST requests for a check
  Callers,    \* REST requests that add or remove a domain
  MayRestart  \* bound: may the daemon restart?

VARIABLES
  endpoints,  \* the registered domains
  resolved,   \* resolved[d]: the last answer for d that was stored
  dns,        \* the environment: what a lookup of d returns now
  file,       \* domains.json
  job,        \* job[t]: the call task t is in
  raced,      \* history: domains removed while a lookup of them was in progress
  alone       \* history: did the last change of the list have the file to itself so far?

vars == <<endpoints, resolved, dns, file, job, raced, alone>>

Tasks == {Boot} \cup Checkers \cup Callers

Stages == {"check", "store", "cleanup", "list", "open", "write"}

\* todo: domains still to look up; saves: does the call persist the list?
Job == [stage: Stages, domain: Domains \cup {Absent}, todo: SUBSET Domains,
        found: Answers \cup {Absent}, saves: BOOLEAN, list: SUBSET Domains]

\* The list that domains.json holds.
List == [domains: SUBSET Domains]

Content == List \cup {Empty, Garbled}

ASSUME ResolverAssumption ==
  /\ Default \in Domains
  /\ Boot \notin Checkers \cup Callers /\ Checkers \cap Callers = {}
  /\ MayRestart \in BOOLEAN
  /\ Absent \notin Domains /\ Absent \notin Answers /\ Absent \notin Job
  /\ Absent \notin [data: Content, fds: SUBSET Tasks]
  /\ Empty \notin List /\ Garbled \notin List

ResolverTypeOK ==
  /\ endpoints \subseteq Domains
  /\ resolved \in [Domains -> Answers \cup {Absent}]
  /\ dns \in [Domains -> Answers \cup {Absent}]
  /\ file \in [data: Content, fds: SUBSET Tasks] \cup {Absent}
  /\ job \in [Tasks -> Job \cup {Absent}]
  /\ raced \subseteq Domains
  /\ alone \in BOOLEAN

-----------------------------------------------------------------------------

Idle(t) == job[t] = Absent

At(t, stage) == job[t] # Absent /\ job[t].stage = stage

\* Requests are served, and the worker runs, once load_sources() returned.
MayCall(t) == t \in Callers /\ Idle(t) /\ Idle(Boot)

Checking(todo, saves) ==
  [stage |-> "check", domain |-> Absent, todo |-> todo, found |-> Absent,
   saves |-> saves, list |-> {}]

\* t is about to store an answer for d, or will look it up.
InFlight(t, d) ==
  job[t] # Absent /\ (d \in job[t].todo \/ (job[t].stage = "store" /\ job[t].domain = d))

\* A call that changed the list is under way: it persists the list before it returns.
Saving == \E t \in Tasks : job[t] # Absent /\ job[t].saves

\* A call that changed the list goes on to persist it.
AfterChange(j) == IF j.saves THEN [j EXCEPT !.stage = "list"] ELSE Absent

\* check_and_update_all(): the snapshot of the domains.
Check(t) ==
  /\ t \in Checkers
  /\ Idle(t) /\ Idle(Boot)
  /\ endpoints # {}
  /\ job' = [job EXCEPT ![t] = Checking(endpoints, FALSE)]
  /\ UNCHANGED <<endpoints, resolved, dns, file, raced, alone>>

\* add_domain(): registered first, looked up and persisted afterwards.
Add(t, d) ==
  /\ MayCall(t)
  /\ endpoints' = endpoints \cup {d}
  /\ job' = [job EXCEPT ![t] = Checking({d}, TRUE)]
  /\ alone' = ~Saving
  /\ UNCHANGED <<resolved, dns, file, raced>>

\* resolve_host(): awaits DNS.
Lookup(t, d) ==
  /\ At(t, "check") /\ d \in job[t].todo
  /\ job' = [job EXCEPT ![t].stage = "store", ![t].domain = d,
                        ![t].todo = @ \ {d}, ![t].found = dns[d]]
  /\ UNCHANGED <<endpoints, resolved, dns, file, raced, alone>>

\* Mutant: a failed lookup takes the address away.
Stored(j, old) == j.found

\* Mutant: an address that is known is not looked at again.
StoredOnce(j, old) == IF old = Absent THEN j.found ELSE old

\* A new answer replaces the old one; a failed lookup keeps the last known good.
NewState(j, old) == IF j.found = Absent THEN old ELSE j.found

Store(t) ==
  /\ At(t, "store")
  /\ LET j == job[t] IN
     /\ resolved' = [resolved EXCEPT ![j.domain] = NewState(j, @)]
     /\ job' = [job EXCEPT ![t] = IF j.todo # {} THEN [j EXCEPT !.stage = "check"]
                                                 ELSE AfterChange(j)]
  /\ UNCHANGED <<endpoints, dns, file, raced, alone>>

\* Mutant: the removal is not persisted.
Forgets(d) == FALSE

\* A removal is persisted when it removed something.
Removes(d) == d \in endpoints

\* remove_domain_any(): the domain first, its addresses afterwards.
Remove(t, d) ==
  /\ MayCall(t)
  /\ endpoints' = endpoints \ {d}
  /\ job' = [job EXCEPT ![t] = [Checking({}, Removes(d)) EXCEPT !.stage = "cleanup", !.domain = d]]
  /\ raced' = IF \E u \in Tasks : InFlight(u, d) THEN raced \cup {d} ELSE raced \ {d}
  /\ alone' = IF Removes(d) THEN ~Saving ELSE alone
  /\ UNCHANGED <<resolved, dns, file>>

\* Mutant: the addresses stay.
CleanupNothing(t) ==
  /\ At(t, "cleanup")
  /\ job' = [job EXCEPT ![t] = AfterChange(job[t])]
  /\ UNCHANGED <<endpoints, resolved, dns, file, raced, alone>>

Cleanup(t) ==
  /\ At(t, "cleanup")
  /\ resolved' = [resolved EXCEPT ![job[t].domain] = Absent]
  /\ job' = [job EXCEPT ![t] = AfterChange(job[t])]
  /\ UNCHANGED <<endpoints, dns, file, raced, alone>>

-----------------------------------------------------------------------------
(* persist_to_disk(): list, open, write *)

ListDomains(t) ==
  /\ At(t, "list")
  /\ job' = [job EXCEPT ![t].stage = "open", ![t].list = endpoints]
  /\ UNCHANGED <<endpoints, resolved, dns, file, raced, alone>>

OpenFile(t) ==
  /\ At(t, "open")
  /\ file' = Truncated(file, t)
  /\ job' = [job EXCEPT ![t].stage = "write"]
  /\ UNCHANGED <<endpoints, resolved, dns, raced, alone>>

\* load_sources() ends with a check of all domains.
WriteFile(t) ==
  /\ At(t, "write")
  /\ \E data \in Overwrites(file.data, [domains |-> job[t].list]) : file' = Wrote(file, t, data)
  /\ job' = [job EXCEPT ![t] = IF t = Boot THEN Checking(endpoints, FALSE) ELSE Absent]
  /\ UNCHANGED <<endpoints, resolved, dns, raced, alone>>

\* Mutant: whatever the file holds is the list.
LoadedAnything(f) == IF f = Absent \/ f.data = Empty THEN {Absent} ELSE f.data.domains

\* What load_sources() takes from the file: nothing when it does not parse.
Loaded(f) == IF f = Absent \/ f.data \notin List THEN {} ELSE f.data.domains

\* The list of the file, or the default domain, added as any other.
Started(loaded) ==
  [t \in Tasks |-> IF t # Boot THEN Absent
                   ELSE IF loaded = {} THEN Checking({Default}, TRUE)
                   ELSE Checking(loaded, FALSE)]

Registered(loaded) == IF loaded = {} THEN {Default} ELSE loaded

Restart ==
  /\ MayRestart
  /\ file' = Closed(file)
  /\ endpoints' = Registered(Loaded(file))
  /\ job' = Started(Loaded(file))
  /\ resolved' = [d \in Domains |-> Absent]
  /\ raced' = {}
  /\ alone' = TRUE
  /\ UNCHANGED dns

\* The operators of a domain move it, or its DNS fails.
Drift(d) ==
  /\ dns' \in {[dns EXCEPT ![d] = a] : a \in (Answers \cup {Absent}) \ {dns[d]}}
  /\ UNCHANGED <<endpoints, resolved, file, job, raced, alone>>

Init ==
  /\ file = Absent
  /\ endpoints = Registered({})
  /\ job = Started({})
  /\ resolved = [d \in Domains |-> Absent]
  /\ dns \in [Domains -> Answers]
  /\ raced = {}
  /\ alone = TRUE

Step(t) ==
  \/ \E d \in Domains : Lookup(t, d)
  \/ Store(t) \/ Cleanup(t) \/ ListDomains(t) \/ OpenFile(t) \/ WriteFile(t)

Next ==
  \/ \E t \in Tasks : Check(t) \/ Step(t)
  \/ \E t \in Callers, d \in Domains : Add(t, d) \/ Remove(t, d)
  \/ \E d \in Domains : Drift(d)
  \/ Restart

Spec == Init /\ [][Next]_vars

\* The runtime runs a task that can go on, and the worker's loop never ends.
Fairness == \A t \in Tasks : WF_vars(Step(t)) /\ WF_vars(Check(t))

FairSpec == Spec /\ Fairness

-----------------------------------------------------------------------------
(* Properties *)

(* resolver.rs:331 writes an answer without asking whether its domain is   *)
(* still registered: an address of a domain that was removed is in use     *)
(* only while the removal goes on, or when it overtook a lookup.           *)
GhostsRaced ==
  \A d \in Domains \ endpoints :
    resolved[d] # Absent => d \in raced \/ \E t \in Tasks : At(t, "cleanup") /\ job[t].domain = d

(* resolver.rs:419-424 persists a list that was read after the change:     *)
(* once the last call that changed the list has returned, the file is the  *)
(* list of domains, whatever checks and restarts did meanwhile, unless     *)
(* another call that changes the list overlapped that one.  A change that  *)
(* is persisted undisturbed repairs whatever overlapping ones left.        *)
FileMatches ==
  ~Saving /\ alone => file # Absent /\ file.data = [domains |-> endpoints]

(* ARCHITECTURE.md:86, "retains the last-known verified good IP address":  *)
(* whatever DNS does, a registered domain that nobody is removing keeps an *)
(* address once it has one.                                                *)
KeepsLastKnownGood ==
  [][\A d \in endpoints :
       /\ resolved[d] # Absent
       /\ ~Restart
       /\ ~\E t \in Tasks : At(t, "cleanup") /\ job[t].domain = d
       => resolved'[d] # Absent]_vars

(* resolver.rs:42-44, "instant stale IP invalidation and drift detection": *)
(* when a registered domain settles on an answer, that answer is what the  *)
(* daemon uses from some point on, whatever overlapped on the way there.   *)
EventuallyResolved ==
  \A d \in Domains, a \in Answers :
    <>[](d \in endpoints /\ dns[d] = a) /\ <>[][~Restart]_vars => <>[](resolved[d] = a)
=============================================================================
