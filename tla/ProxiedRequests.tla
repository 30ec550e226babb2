-------------------------- MODULE ProxiedRequests --------------------------
(***************************************************************************)
(* The request handler that all processors share: processors add URLs to a *)
(* queue of their own, the handler requests as many of all queues' URLs at *)
(* a time as its proxies have slots, and the processors collect results.   *)
(*                                                                         *)
(* One lock guards the handler.  A processor that iterates over results    *)
(* keeps the lock while it works on one, and may add a URL or stop all its *)
(* requests while it does.  What a request returns, the hooks, and how long*)
(* things take are left out: a request ends when it ends, and a slot has   *)
(* cooled off at some time after its request was seen to end.  The URLs of *)
(* one queue are all different, and numbered.                              *)
(*                                                                         *)
(* `halted` is empty whenever the lock is free, as _halt() empties it      *)
(* again, so that nothing below depends on it.                             *)
(***************************************************************************)
EXTENDS Integers, FiniteSets, Sequences, SequencesExt

CONSTANTS
    Queue,              \* the processors, each with the queue of its dataset
    Ordered,            \* those that want their results in the URLs' order
    Pusher,             \* those that may add a URL for a result they get
    Abandoner,          \* those that may stop early and leave their queue
    Urls,               \* how many URLs each processor has
    Batch,              \* how many of them it has in its queue at a time
    Host,
    HostOf,             \* the host of a queue's URL
    Localhost,          \* stands for requests without a proxy
    Configured,         \* the value that proxies.urls has at the start
    Settings,           \* the values that it may be given
    MaxChanges,         \* bound: times that proxies.urls is changed
    AllowFallback,      \* proxies.allow-localhost-fallback
    MaxOverall,         \* proxies.concurrent-overall
    MaxPerHost,         \* proxies.concurrent-host
    Nothing             \* no proxy, or none that is free
    
Proxy == (UNION Settings) \cup Configured \cup {Localhost}
Pushed(q) == Urls[q] + 1
Url == UNION {1..Pushed(q) : q \in Queue}

ASSUME ProxiedRequestsAssumption ==
    /\ Ordered \subseteq Queue /\ Pusher \subseteq Queue \ Ordered
    /\ Abandoner \subseteq Queue
    /\ Urls \in [Queue -> Nat] /\ Batch \in Nat \ {0}
    /\ HostOf \in [Queue \X Url -> Host] /\ IsFiniteSet(Host)
    /\ Configured # {} /\ {} \notin Settings
    /\ \A urls \in Settings \cup {Configured} : IsFiniteSet(urls)
    /\ MaxOverall \in Nat \ {0} /\ MaxPerHost \in Nat \ {0} /\ MaxChanges \in Nat
    /\ AllowFallback \in BOOLEAN
    /\ Nothing \notin Proxy

VARIABLES
    configured,     \* proxies.urls as it is in the database
    settings,       \* proxies.urls as the handler has read it
    pool,           \* the proxies, in the order in which they were last used
    queues,         \* the queues, in the order in which they were made
    lock,           \* the processor that holds the lock between its steps
    phase,          \* where a processor is
    next,           \* the next URL that a processor adds
    have_urls,      \* whether a processor has yet to find it has no more URLs
    todo,           \* URLs that the processor still looks at for results
    delivered,      \* URLs whose result the processor has had, in that order
    changes         \* changes to proxies.urls so far

handler == <<settings, pool, queues>>
workers == <<lock, phase, next, have_urls, todo, delivered>>
env == <<configured, changes>>
vars == <<settings, pool, queues, lock, phase, next, have_urls, todo,
          delivered, configured, changes>>

-----------------------------------------------------------------------------
(* Proxies.  The slots of a proxy are lists, one per host; a slot is taken *)
(* by a running request and keeps being taken until it has cooled off.     *)

\* What a list has at these positions, in the list's order.
Only(s, positions) ==
    LET only[i \in 0..Len(s)] ==
            IF i = 0 THEN <<>>
            ELSE IF i \in positions THEN Append(only[i - 1], s[i])
            ELSE only[i - 1]
    IN  only[Len(s)]

NewProxy(u) == [url |-> u, healthy |-> TRUE, pending |-> FALSE,
                slots |-> [h \in Host |-> <<>>]]

InPool(pl) == {pl[i].url : i \in DOMAIN pl}
TakeOut(pl, u) == Only(pl, {i \in DOMAIN pl : pl[i].url # u})
Update(pl, u, op(_)) ==
    [i \in DOMAIN pl |-> IF pl[i].url = u THEN op(pl[i]) ELSE pl[i]]

has_active_requests(p) ==
    \E h \in Host : \E i \in DOMAIN p.slots[h] : p.slots[h][i].state = "running"

\* The list is changed while it is iterated over: what follows a slot that
\* is released is passed over.
release_cooled_off(slots) ==
    LET cooled(i) == slots[i].state = "cooled"
        released[i \in 0..Len(slots)] == i > 0 /\ cooled(i) /\ ~released[i - 1]
    IN  Only(slots, {i \in DOMAIN slots : cooled(i) => released[i - 1]})

Taken(p) == {s \in Host \X (1..MaxOverall) : s[2] \in DOMAIN p.slots[s[1]]}

\* Slots are given away as soon as they are claimed: the request starts.
claim_slot(p, h, r) ==
    IF Cardinality(Taken(p)) < MaxOverall /\ Len(p.slots[h]) < MaxPerHost
    THEN [ok |-> TRUE,
          proxy |-> [p EXCEPT !.slots[h] =
                        Append(@, [of |-> r, state |-> "running"])]]
    ELSE [ok |-> FALSE, proxy |-> p]

claim_for(p, r) ==
    LET released == [h \in Host |-> release_cooled_off(p.slots[h])]
    IN  claim_slot([p EXCEPT !.slots = released], HostOf[r], r)

\* The first slot that runs a request for this URL.
mark_request_finished(p, r) ==
    LET h == HostOf[r]
        running(s) == s.of = r /\ s.state = "running"
        i == SelectInSeq(p.slots[h], running)
    IN  IF i = 0 THEN p ELSE [p EXCEPT !.slots[h][i].state = "cooling"]

-----------------------------------------------------------------------------
(* The pool. *)

Usable(p) == p.healthy /\ ~p.pending

\* Localhost is made a proxy if there is no other and it has not been.
Mut_NeedsFallback(pl) == AllowFallback /\ ~\E i \in DOMAIN pl : Usable(pl[i])
NeedsFallback(pl) ==
    /\ AllowFallback /\ Localhost \notin InPool(pl)
    /\ ~\E i \in DOMAIN pl : Usable(pl[i])

\* Each proxy is tried in turn until one, at first, has a slot.
try_proxies(pl, r) ==
    LET free(p) == Usable(p) /\ claim_for(p, r).ok
        first == SelectInSeq(pl, free)
        tried(i) == Usable(pl[i]) /\ (first = 0 \/ i <= first)
    IN  [pool |-> [i \in DOMAIN pl |->
                      IF tried(i) THEN claim_for(pl[i], r).proxy ELSE pl[i]],
         proxy |-> IF first = 0 THEN Nothing ELSE pl[first].url]

\* The one that is claimed has been used last.
Used(tried) ==
    LET claimed == {i \in DOMAIN tried.pool : tried.pool[i].url = tried.proxy}
    IN  [ok |-> TRUE, proxy |-> tried.proxy,
         pool |-> TakeOut(tried.pool, tried.proxy) \o Only(tried.pool, claimed)]

\* The pool after the claim, and the proxy claimed: Nothing if all are
\* busy.  ok is FALSE if there is no proxy that could ever be claimed.
claim_proxy(pl, r) ==
    LET all == IF NeedsFallback(pl) THEN <<NewProxy(Localhost)>> \o pl ELSE pl
    IN  IF \E i \in DOMAIN all : Usable(all[i])
        THEN Used(try_proxies(all, r))
        ELSE [ok |-> FALSE, proxy |-> Nothing, pool |-> pl]

\* A proxy that is not in the settings stays while it has active requests,
\* marked for removal, and goes with the last of them.
Mut_Stays(p, urls) == p.url \in urls
Stays(p, urls) == p.url \in urls \/ has_active_requests(p)

Goes(p) == p.pending /\ ~has_active_requests(p)

\* New proxies have never been used and come first, in any order.
update_proxy_pool(pl, urls) ==
    LET mark(p) == IF p.url \in urls THEN p ELSE [p EXCEPT !.pending = TRUE]
        kept == Only(pl, {i \in DOMAIN pl : Stays(pl[i], urls)})
        added == SetToSeq(urls \ InPool(pl))
    IN  [i \in DOMAIN added |-> NewProxy(added[i])]
            \o [i \in DOMAIN kept |-> mark(kept[i])]

\* All proxies are taken to be healthy again.
refresh_settings ==
    LET healthy == [i \in DOMAIN pool |-> [pool[i] EXCEPT !.healthy = TRUE]]
    IN  /\ settings' = configured
        /\ pool' = IF pool # <<>> /\ configured = settings THEN healthy
                   ELSE update_proxy_pool(healthy, configured)

-----------------------------------------------------------------------------
(* Managing requests.  future is where the request of an entry is: it may  *)
(* have failed in its proxy; a response and any other error are the same to*)
(* the handler.                                                            *)

Entry(n) ==
    [n |-> n, status |-> "queued", future |-> "none", proxy |-> Nothing]
Ended(e) ==
    [e EXCEPT !.status = "waiting", !.future = "returned", !.proxy = Nothing]

Mut_Unhealthy(pl, u) == pl
Unhealthy(pl, u) == Update(pl, u, LAMBDA p : [p EXCEPT !.healthy = FALSE])

\* See whether the request of an entry has ended.  A proxy that fails and
\* does not answer the probe is unhealthy, and its request is queued again.
Collect(pl, q, e, answers) ==
    LET r == <<q, e.n>>
        freed == Update(pl, e.proxy, LAMBDA p : mark_request_finished(p, r))
        left == Only(freed, {i \in DOMAIN freed :
                                freed[i].url # e.proxy \/ ~Goes(freed[i])})
    IN  IF e.status # "started" \/ e.future = "running"
        THEN [pool |-> pl, entry |-> e]
        ELSE IF e.future = "proxy" /\ e.proxy \notin answers
        THEN [pool |-> Unhealthy(left, e.proxy), entry |-> Entry(e.n)]
        ELSE [pool |-> left, entry |-> Ended(e)]

\* Start the request of an entry, or give up on it if all proxies are lost.
Begun(c, e) ==
    [pool |-> c.pool,
     entry |-> IF c.proxy # Nothing
               THEN [e EXCEPT !.status = "started", !.proxy = c.proxy,
                              !.future = "running"]
               ELSE IF c.ok THEN e ELSE Ended(e)]
Start(q, seen) ==
    IF seen.entry.status # "queued" THEN seen
    ELSE Begun(claim_proxy(seen.pool, <<q, seen.entry.n>>), seen.entry)

\* All queues' entries in turn; answers has the proxies that answer a probe.
Managed(acc, i, k, answers) ==
    LET qu == acc.queues[i]
        m == Start(qu.name, Collect(acc.pool, qu.name, qu.entries[k], answers))
    IN  [pool |-> m.pool, queues |-> [acc.queues EXCEPT ![i].entries[k] = m.entry]]
ManageQueue(acc, i, answers) ==
    LET to[k \in 0..Len(acc.queues[i].entries)] ==
            IF k = 0 THEN acc ELSE Managed(to[k - 1], i, k, answers)
    IN  to[Len(acc.queues[i].entries)]
manage_requests(pl, qs, answers) ==
    LET to[i \in 0..Len(qs)] ==
            IF i = 0 THEN [pool |-> pl, queues |-> qs]
            ELSE ManageQueue(to[i - 1], i, answers)
    IN  to[Len(qs)]

-----------------------------------------------------------------------------
(* Queues. *)

Queues == {queues[i].name : i \in DOMAIN queues}
Entries(q) ==
    IF q \in Queues
    THEN queues[CHOOSE i \in DOMAIN queues : queues[i].name = q].entries
    ELSE <<>>
With(qs, q, entries) ==
    [i \in DOMAIN qs |->
        IF qs[i].name = q THEN [qs[i] EXCEPT !.entries = entries] ELSE qs[i]]
Waiting(q) == {e.n : e \in {f \in ToSet(Entries(q)) : f.status = "waiting"}}
Without(q, ns) ==
    Only(Entries(q), {i \in DOMAIN Entries(q) : Entries(q)[i].n \notin ns})

Free(q) == lock \in {Nothing, q}

\* manage_requests() with the handler's queues, or with those it has just
\* been given; a proxy that has failed may or may not answer the probe.
Manage(qs) ==
    \E answers \in SUBSET {e.proxy : e \in
            {f \in UNION {ToSet(qs[i].entries) : i \in DOMAIN qs} :
                f.future = "proxy"}} :
        \E m \in {manage_requests(pool, qs, answers)} :
            pool' = m.pool /\ queues' = m.queues

-----------------------------------------------------------------------------
(* Initially the handler has just been made. *)

Init ==
    /\ configured = Configured
    /\ settings = configured
    /\ pool = update_proxy_pool(<<>>, configured)
    /\ queues = <<>>
    /\ lock = Nothing
    /\ phase = [q \in Queue |-> "idle"]
    /\ next = [q \in Queue |-> 1]
    /\ have_urls = [q \in Queue |-> TRUE]
    /\ todo = [q \in Queue |-> <<>>]
    /\ delivered = [q \in Queue |-> <<>>]
    /\ changes = 0

Goto(q, p) == phase' = [phase EXCEPT ![q] = p]

\* A processor begins: iterate_proxied_requests() reads the settings.
Begin(q) ==
    /\ phase[q] = "idle" /\ Free(q)
    /\ refresh_settings
    /\ Goto(q, "looping")
    /\ UNCHANGED <<queues, lock, next, have_urls, todo, delivered, env>>

\* The top of its loop: add URLs if the queue is not full.  It finds that
\* it has no more when it wants to add one.  add_urls() then has requests
\* managed: that others may do so first is left out, as it does the same.
TopUp(q) ==
    /\ phase[q] = "looping" /\ Free(q)
    /\ have_urls[q] /\ Len(Entries(q)) < Batch
    /\ LET room == Batch - Len(Entries(q))
           last == Min({Urls[q], next[q] + room - 1})
           batch == [i \in 1..(last + 1 - next[q]) |-> Entry(next[q] + i - 1)]
           made == IF q \in Queues THEN queues
                   ELSE Append(queues, [name |-> q, entries |-> <<>>])
       IN  /\ Manage(With(made, q, Entries(q) \o batch))
           /\ next' = [next EXCEPT ![q] = last + 1]
           /\ have_urls' = [have_urls EXCEPT ![q] = next[q] + room <= last + 1]
    /\ Goto(q, "asking")
    /\ UNCHANGED <<settings, lock, todo, delivered, env>>

\* No more URLs and nothing in the queue: the iteration ends.
Complete(q) ==
    /\ phase[q] = "looping" /\ Free(q)
    /\ Entries(q) = <<>> /\ ~have_urls[q]
    /\ Goto(q, "done")
    /\ UNCHANGED <<handler, lock, next, have_urls, todo, delivered, env>>

\* manage_requests(), with which get_results() begins: in the loop, whether
\* or not URLs were added, or while the processor waits for its requests.
Asking(q) ==
    /\ Free(q)
    /\ \/ phase[q] = "asking" /\ Goto(q, "results")
       \/ /\ phase[q] = "looping"
          /\ Entries(q) # <<>> /\ (have_urls[q] => Len(Entries(q)) >= Batch)
          /\ Goto(q, "results")
       \/ phase[q] = "halting" /\ Entries(q) # <<>> /\ Goto(q, "draining")
    /\ Manage(queues)
    /\ UNCHANGED <<settings, lock, next, have_urls, todo, delivered, env>>

\* A processor that wants results in order only gets the first one.
Mut_InTurn(q, i) == i > 0
InTurn(q, i) == i = 1 \/ (q \notin Ordered /\ i > 1)

\* What get_results() yields next, of the URLs it has yet to look at: the
\* first one with a result, if it may.  If there is none the processor goes
\* on with its loop, without the lock.
YieldNext(q, urls) ==
    LET ready(n) == n \in Waiting(q)
        i == SelectInSeq(urls, ready)
    IN  IF ~InTurn(q, i)
        THEN /\ todo' = [todo EXCEPT ![q] = <<>>]
             /\ lock' = Nothing
             /\ Goto(q, "looping")
             /\ UNCHANGED <<queues, delivered>>
        ELSE /\ todo' = [todo EXCEPT ![q] = SubSeq(urls, i + 1, Len(urls))]
             /\ lock' = q
             /\ queues' = With(queues, q, Without(q, {urls[i]}))
             /\ delivered' = [delivered EXCEPT ![q] = Append(@, urls[i])]
             /\ Goto(q, "working")

\* get_results() takes the lock and looks at all that is in the queue now.
Results(q) ==
    /\ phase[q] = "results" /\ Free(q)
    /\ YieldNext(q, [i \in DOMAIN Entries(q) |-> Entries(q)[i].n])
    /\ UNCHANGED <<settings, pool, next, have_urls, env>>

\* The processor is done with a result and asks for another one.
Continue(q) ==
    /\ phase[q] \in {"working", "pushed"}
    /\ YieldNext(q, todo[q])
    /\ UNCHANGED <<settings, pool, next, have_urls, env>>

\* For the result it has it adds a URL, to be requested before the others.
Push(q) ==
    /\ phase[q] = "working" /\ q \in Pusher
    /\ Pushed(q) \notin ToSet(delivered[q]) \cup {e.n : e \in ToSet(Entries(q))}
    /\ Manage(With(queues, q, <<Entry(Pushed(q))>> \o Entries(q)))
    /\ Goto(q, "pushed")
    /\ UNCHANGED <<settings, lock, next, have_urls, todo, delivered, env>>

\* It has enough: it leaves the loop, and with that the lock, to then stop its
\* other requests, unless it is one of those that do not.
Mut_Unflushed(q) ==
    /\ phase[q] = "working"
    /\ lock' = Nothing
    /\ todo' = [todo EXCEPT ![q] = <<>>]
    /\ Goto(q, "done")
    /\ UNCHANGED <<handler, next, have_urls, delivered, env>>
Enough(q) ==
    /\ phase[q] = "working"
    /\ lock' = Nothing
    /\ todo' = [todo EXCEPT ![q] = <<>>]
    /\ Goto(q, IF q \in Abandoner THEN "done" ELSE "flushing")
    /\ UNCHANGED <<handler, next, have_urls, delivered, env>>

\* _halt(): what has not been started, or has a result, is dropped; what has
\* been started is cancelled, which only helps if it has not begun.  Done
\* after the loop, or in it, with the lock, if the processor finds that it is
\* interrupted, which it may be at any time.
Halt(q) ==
    /\ phase[q] \in {"flushing", "working"} /\ Free(q)
    /\ LET rest == Only(Entries(q), {i \in DOMAIN Entries(q) :
                                        Entries(q)[i].status = "started"})
       IN  \E cancelled \in SUBSET {e.n : e \in
                                {f \in ToSet(rest) : f.future = "running"}} :
            queues' = With(queues, q,
                [i \in DOMAIN rest |->
                    IF rest[i].n \in cancelled
                    THEN [rest[i] EXCEPT !.future = "returned"] ELSE rest[i]])
    /\ todo' = [todo EXCEPT ![q] = <<>>]
    /\ Goto(q, "halting")
    /\ UNCHANGED <<settings, pool, lock, next, have_urls, delivered, env>>

\* halt_and_wait() throws all results away until there are none to wait for.
Drain(q) ==
    /\ phase[q] = "draining" /\ Free(q)
    /\ queues' = With(queues, q, Without(q, Waiting(q)))
    /\ Goto(q, "halting")
    /\ UNCHANGED <<settings, pool, lock, next, have_urls, todo, delivered, env>>

\* The queue is deleted, and the processor leaves its loop if it had not.
Halted(q) ==
    /\ phase[q] = "halting" /\ Free(q) /\ Entries(q) = <<>>
    /\ queues' = Only(queues, {i \in DOMAIN queues : queues[i].name # q})
    /\ lock' = Nothing
    /\ Goto(q, "done")
    /\ UNCHANGED <<settings, pool, next, have_urls, todo, delivered, env>>

Work(q) ==
    \/ TopUp(q) \/ Complete(q) \/ Asking(q) \/ Results(q)
    \/ Continue(q) \/ Push(q) \/ Enough(q) \/ Halt(q) \/ Drain(q) \/ Halted(q)

-----------------------------------------------------------------------------
(* What goes on meanwhile. *)

\* A request ends: with a response or an error such as a timeout, or with an
\* error of its proxy if it has one.
RequestEnds(q) ==
    /\ \E i \in DOMAIN Entries(q) :
        /\ Entries(q)[i].future = "running"
        /\ \E how \in {"returned", "proxy"} :
            /\ how = "proxy" => Entries(q)[i].proxy # Localhost
            /\ queues' = With(queues, q, [Entries(q) EXCEPT ![i].future = how])
    /\ UNCHANGED <<settings, pool, workers, env>>

\* The cool-off time of a slot has passed.
CoolOff ==
    /\ \E i \in DOMAIN pool, h \in Host : \E s \in DOMAIN pool[i].slots[h] :
        /\ pool[i].slots[h][s].state = "cooling"
        /\ pool' = [pool EXCEPT ![i].slots[h][s].state = "cooled"]
    /\ UNCHANGED <<settings, queues, workers, env>>

\* An administrator changes proxies.urls.
ChangeSettings ==
    /\ changes < MaxChanges
    /\ configured' \in Settings \ {configured}
    /\ changes' = changes + 1
    /\ UNCHANGED <<handler, workers>>

Next ==
    \/ \E q \in Queue : Begin(q) \/ Work(q) \/ RequestEnds(q)
    \/ CoolOff
    \/ ChangeSettings

Spec == Init /\ [][Next]_vars

Phase == {"idle", "looping", "asking", "results", "working", "pushed",
          "flushing", "halting", "draining", "done"}

\* What Work(q) does to the processor, and no other action: it is always
\* possible when the processor has begun and does not wait for the lock.
Turn(q) ==
    /\ phase[q] \notin {"idle", "done"} /\ Free(q)
    /\ \E p \in Phase : phase' = [phase EXCEPT ![q] = p]
    /\ \/ UNCHANGED delivered
       \/ \E n \in Url : delivered' = [delivered EXCEPT ![q] = Append(@, n)]

\* Processors run in threads of their own; requests have timeouts.
FairSpec ==
    /\ Spec
    /\ \A q \in Queue : /\ WF_<<phase, delivered>>(Turn(q))
                        /\ WF_vars(RequestEnds(q))
    /\ WF_vars(CoolOff)

-----------------------------------------------------------------------------
(* Properties. *)

TypeOK ==
    /\ {configured, settings} \subseteq Settings \cup {Configured}
    /\ InPool(pool) \subseteq Proxy /\ Len(pool) = Cardinality(InPool(pool))
    /\ \A i \in DOMAIN pool : /\ pool[i].healthy \in BOOLEAN
                              /\ pool[i].pending \in BOOLEAN
    /\ Queues \subseteq Queue /\ Len(queues) = Cardinality(Queues)
    /\ \A q \in Queue : \A e \in ToSet(Entries(q)) :
        /\ e.n \in Url
        /\ e.status \in {"queued", "started", "waiting"}
        /\ e.future \in {"none", "running", "returned", "proxy"}
        /\ e.proxy \in Proxy \cup {Nothing}
    /\ lock \in Queue \cup {Nothing} /\ phase \in [Queue -> Phase]
    /\ \A q \in Queue : todo[q] \in Seq(Url) /\ delivered[q] \in Seq(Url)
    /\ have_urls \in [Queue -> BOOLEAN] /\ next \in [Queue -> Url]
    /\ changes \in 0..MaxChanges

Started(u) == {r \in Queue \X Url : \E e \in ToSet(Entries(r[1])) :
                    e.n = r[2] /\ e.status = "started" /\ e.proxy = u}

\* The requests that are under way through a proxy are the ones its slots
\* are taken by, so that there are never more than it may handle, in all and
\* to one host, whatever queues they are from, and whether or not the proxy
\* has been taken out of the settings since.  (mark_request_finished() raises
\* an error if it finds no slot.)
RequestsHaveSlots ==
    \A u \in Proxy :
        /\ Cardinality(Started(u)) <= MaxOverall
        /\ \A h \in Host : Cardinality({r \in Started(u) : HostOf[r] = h})
                               <= MaxPerHost
        /\ \A r \in Started(u) : \E i \in DOMAIN pool :
            /\ pool[i].url = u
            /\ [of |-> r, state |-> "running"] \in ToSet(pool[i].slots[HostOf[r]])

\* A processor that wants them in order gets the results in the order of its
\* URLs, none left out, although requests end in any order and are queued
\* again; every other one gets no result twice, and all when it is through.
EachResultOnce ==
    \A q \in Queue :
        /\ q \in Ordered => \A i \in DOMAIN delivered[q] : delivered[q][i] = i
        /\ Len(delivered[q]) = Cardinality(ToSet(delivered[q]))
        /\ phase[q] = "done" /\ q \in Queues /\ q \notin Abandoner =>
            1..Urls[q] \subseteq ToSet(delivered[q])

\* Processors that have begun end: their requests end, are retried only so
\* often, and one that stops its requests does not wait forever.
ProcessorsEnd == <>[](\A q \in Queue : phase[q] \in {"idle", "done"})


\* "If all proxies are down, allow falling back to direct requests": none is
\* started directly while a configured proxy is not known to be down.
DirectOnlyAsFallback ==
    [][\A r \in Started(Localhost)' \ Started(Localhost) :
        Localhost \in settings \/
        ~\E p \in ToSet(pool), later \in ToSet(pool') :
            /\ p.url \in settings /\ Usable(p)
            /\ later.url = p.url /\ Usable(later)]_vars

\* What has URLs left to be requested when it has ended is a processor that stops
\* early and leaves them; no other one does, whatever was pushed, halted or
\* queued again while it ended.  Processors have to see to that themselves
\* (flush_proxied_requests(), "Get rid of remaining proxied requests").
NothingLeftBehind ==
    \A q \in Queue : phase[q] = "done" /\ Entries(q) # <<>> => q \in Abandoner
=============================================================================
