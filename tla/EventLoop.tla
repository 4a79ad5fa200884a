----------------------------- MODULE EventLoop -----------------------------
(***************************************************************************)
(* class EventLoop (libsponge/util/eventloop.hh, eventloop.cc): one thread *)
(* that polls the descriptors of a list of rules and runs the rules'       *)
(* callbacks, while the kernel and the peers change the readiness of the   *)
(* descriptors at any moment.                                              *)
(*                                                                         *)
(* wait_next_event() is cut at the points where another actor's step can   *)
(* matter: before each rule of the set-up loop, at poll(2), and before     *)
(* each rule of the dispatch loop.  Callbacks belong to the application;   *)
(* one may serve its descriptor, close a descriptor, change a rule's       *)
(* interest or add a rule, and may throw.  A service count is read just    *)
(* before and just after a callback, so all that matters of it is whether  *)
(* the callback has served the descriptor.                                 *)
(*                                                                         *)
(* poll(2) and the descriptors are the kernel's: they are modelled from    *)
(* the way eventloop.cc uses them.  The descriptors do not block: a        *)
(* callback that reads where nothing is left throws.  Descriptor numbers   *)
(* are not reused here; module FileDescriptor is about that.               *)
(***************************************************************************)
EXTENDS Naturals, FiniteSets, SequencesExt

CONSTANTS Fd,        \* the descriptors, each with its shared FDWrapper
          Pipe,      \* those that report a hangup without POLLIN
          RuleId,    \* identities for the rules ever added
          Restless,  \* those whose interest() may change: the default is TRUE
          Offered,   \* the rules the application may add
          MaxData    \* bounds on the chunks waiting to be read of each descriptor

Direction == {"In", "Out"}

Rule == [id : RuleId, fd : Fd, direction : Direction]

ASSUME EventLoopAssumption ==
  /\ Pipe \subseteq Fd
  /\ Restless \subseteq RuleId
  /\ Offered \subseteq Rule
  /\ MaxData \in [Fd -> Nat]

VARIABLES
  file,       \* file[f]: the kernel's and the FDWrapper's state of f
  rules,      \* _rules
  interest,   \* what interest() of each rule returns now
  pc,         \* where wait_next_event() stands
  it, idx,    \* the loops' position in _rules and in pollfds
  pollfds,    \* pollfds; each entry also names the rule it was made for
  result,     \* what the last wait_next_event() returned, if it has
  added,      \* history: the rules that were ever added
  cancels,    \* history: how often each rule's cancel() was called
  ran         \* history: the callbacks and cancels of this call, in order

vars == <<file, rules, interest, pc, it, idx, pollfds, result, added, cancels, ran>>

\* The class forbids further calls after Exit, and an exception ends the
\* loop: the model stops there.
Over == result \in {"Exit", "threw"}

\* ids of the rules in _rules
Installed == {rules[k].id : k \in DOMAIN rules}

\* eof and closed are the flags of the FDWrapper; released: close(2) has given
\* the number up, whether it then reported success or not.
File == [inq : Nat, peer : {"open", "ended", "gone", "reset"}, space : BOOLEAN,
         released : BOOLEAN, eof : BOOLEAN, closed : BOOLEAN]

\* asked: events # 0; ready, hup, err: the bits of revents.
PollFd == [rule : RuleId, fd : Fd, direction : Direction, asked : BOOLEAN,
           ready : BOOLEAN, hup : BOOLEAN, err : BOOLEAN]

\* One call of a rule's callback or of its cancel().
RunOf == [rule : RuleId, by : {"callback", "cancel"}]

Run(id, by) == [rule |-> id, by |-> by]
-----------------------------------------------------------------------------
(***************************************************************************)
(* The kernel and the peers.                                               *)
(***************************************************************************)
Change(f, new) ==
  /\ ~Over
  /\ file' = [file EXCEPT ![f] = new]
  /\ UNCHANGED <<rules, interest, pc, it, idx, pollfds, result, added, cancels, ran>>

Arrive(f) ==
  /\ file[f].peer = "open" /\ file[f].inq < MaxData[f]
  /\ Change(f, [file[f] EXCEPT !.inq = @ + 1])

\* A socket's peer may end its output before it goes away altogether.
PeerEnds(f) ==
  /\ f \notin Pipe /\ file[f].peer = "open"
  /\ Change(f, [file[f] EXCEPT !.peer = "ended"])

PeerGoes(f) ==
  /\ file[f].peer \in {"open", "ended"}
  /\ Change(f, [file[f] EXCEPT !.peer = "gone"])

\* An error on the socket, which poll(2) reports whatever it was asked.
PeerResets(f) ==
  /\ f \notin Pipe /\ file[f].peer # "reset"
  /\ Change(f, [file[f] EXCEPT !.peer = "reset"])

PeerDrains(f) ==
  /\ ~file[f].space /\ f \notin Pipe
  /\ Change(f, [file[f] EXCEPT !.space = TRUE])

Readable(f) == file[f].inq > 0 \/ (file[f].peer # "open" /\ f \notin Pipe)

Ready(f, direction) == IF direction = "In" THEN Readable(f) ELSE file[f].space

\* What poll(2) stores in one entry.
Polled(p) ==
  [p EXCEPT !.ready = ~file[p.fd].released /\ p.asked /\ Ready(p.fd, p.direction),
            !.hup = ~file[p.fd].released /\ file[p.fd].peer = "gone",
            !.err = file[p.fd].released \/ file[p.fd].peer = "reset"]
-----------------------------------------------------------------------------
(***************************************************************************)
(* The application: what it may do outside wait_next_event(), and in a     *)
(* callback.                                                               *)
(***************************************************************************)
\* FDWrapper::close(), when close(2) succeeds.
Close(files, fs) ==
  [f \in Fd |-> IF f \in fs
                THEN [files[f] EXCEPT !.released = TRUE, !.eof = TRUE, !.closed = TRUE]
                ELSE files[f]]

\* add_rule(): duplicates the descriptor and appends.
Added(list, r) == Append(list, r)

Unused == RuleId \ added

add_rule(r) ==
  /\ pc = "idle" /\ ~Over
  /\ r.id \in Unused
  /\ rules' = Added(rules, r)
  /\ interest' = [interest EXCEPT ![r.id] = TRUE]
  /\ added' = added \cup {r.id}
  /\ UNCHANGED <<file, pc, it, idx, pollfds, result, cancels, ran>>

CloseFd(f) ==
  /\ pc = "idle" /\ ~Over /\ ~file[f].released
  /\ file' = Close(file, {f})
  /\ UNCHANGED <<rules, interest, pc, it, idx, pollfds, result, added, cancels, ran>>

\* close(2) reports an error: the number is gone, the exception leaves the
\* flags as they were.  (close() of a released number changes nothing.)
CloseFdFails(f) ==
  /\ pc = "idle" /\ ~Over /\ ~file[f].released
  /\ file' = [file EXCEPT ![f].released = TRUE]
  /\ UNCHANGED <<rules, interest, pc, it, idx, pollfds, result, added, cancels, ran>>

ChangeInterest(id) ==
  /\ pc = "idle" /\ ~Over /\ id \in Installed \cap Restless
  /\ interest' = [interest EXCEPT ![id] = ~@]
  /\ UNCHANGED <<file, rules, pc, it, idx, pollfds, result, added, cancels, ran>>

\* A callback closes at most one descriptor, and changes one rule's interest
\* or adds one rule.
Closable == {{}} \cup {{f} : f \in {g \in Fd : ~file[g].released}}

Reconfigure(list) ==
  \/ rules' = list /\ UNCHANGED <<interest, added>>
  \/ /\ rules' = list
     /\ \E id \in Installed \cap Restless : interest' = [interest EXCEPT ![id] = ~@]
     /\ UNCHANGED added
  \/ \E r \in Offered :
       /\ r.id \in Unused
       /\ rules' = Added(list, r)
       /\ interest' = [interest EXCEPT ![r.id] = TRUE]
       /\ added' = added \cup {r.id}
-----------------------------------------------------------------------------
(***************************************************************************)
(* wait_next_event().                                                      *)
(***************************************************************************)
\* Its local variables go with the call.
Return(value) ==
  /\ pc' = "idle"
  /\ result' = value
  /\ it' = 1 /\ idx' = 1
  /\ pollfds' = <<>>

wait_next_event ==
  /\ pc = "idle" /\ ~Over
  /\ pc' = "setup"
  /\ result' = "none"
  /\ UNCHANGED <<file, rules, interest, it, idx, pollfds, added, cancels, ran>>

ErasedNothing == rules

\* _rules.erase(it), which leaves it at the next rule.
Erased == RemoveAt(rules, it)

\* cancel(), and the rule is gone: both loops do this.
CancelRule ==
  /\ Reconfigure(Erased)
  /\ \E fs \in Closable : file' = Close(file, fs)
  /\ UNCHANGED <<pc, it, pollfds, result>>

\* cancel() throws, so does wait_next_event(), and the rule stays.
CancelThrows ==
  /\ Return("threw")
  /\ UNCHANGED <<file, rules, interest, added>>

Cancels(r) ==
  /\ cancels' = [cancels EXCEPT ![r.id] = @ + 1]
  /\ ran' = Append(ran, Run(r.id, "cancel"))

FinishedOnlyIfClosed(r) == file[r.fd].closed

\* Nothing will come of the rule any more.
Finished(r) == (r.direction = "In" /\ file[r.fd].eof) \/ file[r.fd].closed

NewPollFd(r) ==
  [rule |-> r.id, fd |-> r.fd, direction |-> r.direction, asked |-> interest[r.id],
   ready |-> FALSE, hup |-> FALSE, err |-> FALSE]

EntryIfInterested(r) == IF interest[r.id] THEN <<NewPollFd(r)>> ELSE <<>>

\* What a rule puts into pollfds: without interest, a placeholder.
Entry(r) == <<NewPollFd(r)>>

\* One turn of the set-up loop.
SetUpRule ==
  /\ pc = "setup" /\ it \in DOMAIN rules
  /\ \/ /\ Finished(rules[it])
        /\ Cancels(rules[it])
        /\ (CancelRule /\ UNCHANGED idx) \/ CancelThrows
     \/ /\ ~Finished(rules[it])
        /\ pollfds' = pollfds \o Entry(rules[it])
        /\ it' = it + 1
        /\ UNCHANGED <<file, rules, interest, pc, idx, result, added, cancels, ran>>

\* Quit if there is nothing to poll.
SetUpDone ==
  /\ pc = "setup" /\ it \notin DOMAIN rules
  /\ IF \E k \in DOMAIN pollfds : pollfds[k].asked
     THEN pc' = "poll" /\ UNCHANGED <<it, idx, pollfds, result>>
     ELSE Return("Exit")
  /\ UNCHANGED <<file, rules, interest, added, cancels, ran>>

Fires(p) == p.ready \/ p.hup \/ p.err

\* poll(2) returns a positive number.
PollReady ==
  /\ pc = "poll"
  /\ \E k \in DOMAIN pollfds : Fires(Polled(pollfds[k]))
  /\ pollfds' = [k \in DOMAIN pollfds |-> Polled(pollfds[k])]
  /\ pc' = "dispatch"
  /\ it' = 1 /\ idx' = 1
  /\ UNCHANGED <<file, rules, interest, result, added, cancels, ran>>

\* poll(2) returns 0.
PollTimesOut ==
  /\ pc = "poll"
  /\ \A k \in DOMAIN pollfds : ~Fires(Polled(pollfds[k]))
  /\ Return("Timeout")
  /\ ran' = <<>>
  /\ UNCHANGED <<file, rules, interest, added, cancels>>

\* poll(2) fails with EINTR.
PollInterrupted ==
  /\ pc = "poll"
  /\ Return("Exit")
  /\ UNCHANGED <<file, rules, interest, added, cancels, ran>>

\* Any other error is caught and dropped: the dispatch loop runs over
\* entries whose revents are still 0.
PollFails ==
  /\ pc = "poll"
  /\ pc' = "dispatch"
  /\ it' = 1 /\ idx' = 1
  /\ UNCHANGED <<file, rules, interest, pollfds, result, added, cancels, ran>>
-----------------------------------------------------------------------------
\* The entry the dispatch loop reads.  Past the end of pollfds there is
\* whatever the memory holds.
Entries ==
  IF idx \in DOMAIN pollfds THEN {pollfds[idx]}
  ELSE {[NewPollFd(rules[it]) EXCEPT !.asked = a, !.ready = r, !.hup = h, !.err = e] :
        a \in BOOLEAN, r \in BOOLEAN, h \in BOOLEAN, e \in BOOLEAN}

NextRuleReturns == Return("Success")

\* ++it, ++idx
NextRule ==
  /\ it' = it + 1 /\ idx' = idx + 1
  /\ UNCHANGED <<pc, pollfds, result>>

ServeWithoutTest(f, direction) ==
  IF direction = "In" THEN {[file[f] EXCEPT !.inq = @ - 1]} ELSE {file[f]}

\* What reading or writing f once makes of it: nothing when the call throws
\* (released, nothing there although poll said so, or the peer gone).
Serve(f, direction) ==
  LET s == file[f] IN
  IF s.released THEN {}
  ELSE CASE direction = "In" /\ s.inq > 0 -> {[s EXCEPT !.inq = @ - 1]}
         [] direction = "In" /\ s.inq = 0 /\ s.peer \in {"ended", "gone"} -> {[s EXCEPT !.eof = TRUE]}
         [] direction = "Out" /\ s.space /\ s.peer \in {"open", "ended"} -> {s, [s EXCEPT !.space = FALSE]}
         [] OTHER -> {}

\* The callback reads or writes the descriptor.
CallbackServes(r) ==
  /\ \E s \in Serve(r.fd, r.direction), fs \in Closable :
       file' = Close([file EXCEPT ![r.fd] = s], fs)
  /\ Reconfigure(rules)
  /\ NextRule

\* The callback throws (its read or write fails, or a close(), or for a
\* reason of its own), and so does wait_next_event().
CallbackThrows ==
  /\ Return("threw")
  /\ UNCHANGED <<file, rules, interest, added>>

\* The callback does not serve the descriptor (it may close one): unless the
\* rule has lost interest this is taken for a busy wait.
CallbackSkips(r) ==
  /\ \E fs \in Closable : file' = Close(file, fs)
  /\ Reconfigure(rules)
  /\ IF interest'[r.id] THEN Return("threw")
     ELSE NextRule

Callback(r) ==
  /\ CallbackServes(r) \/ CallbackThrows \/ CallbackSkips(r)
  /\ ran' = Append(ran, Run(r.id, "callback"))
  /\ UNCHANGED cancels

poll_ready_on_hangup(p) == p.ready \/ p.hup

\* revents & events
poll_ready(p) == p.asked /\ p.ready

DefunctOnAnyHangup(p) == p.hup /\ p.asked

\* We asked, and the only condition is a hangup.
Defunct(p) == p.hup /\ p.asked /\ ~poll_ready(p)

\* One turn of the dispatch loop.
DispatchRule ==
  /\ pc = "dispatch" /\ it \in DOMAIN rules
  /\ \E p \in Entries :
       \/ /\ p.err
          /\ Return("threw")
          /\ UNCHANGED <<file, rules, interest, added, cancels, ran>>
       \/ /\ ~p.err /\ Defunct(p)
          /\ Cancels(rules[it])
          /\ (CancelRule /\ idx' = idx + 1) \/ CancelThrows
       \/ /\ ~p.err /\ poll_ready(p)
          /\ Callback(rules[it])
       \/ /\ ~p.err /\ ~Defunct(p) /\ ~poll_ready(p)
          /\ NextRule
          /\ UNCHANGED <<file, rules, interest, added, cancels, ran>>

DispatchDone ==
  /\ pc = "dispatch" /\ it \notin DOMAIN rules
  /\ Return("Success")
  /\ ran' = <<>>
  /\ UNCHANGED <<file, rules, interest, added, cancels>>
-----------------------------------------------------------------------------
Init ==
  /\ file = [f \in Fd |-> [inq |-> 0, peer |-> "open", space |-> f \notin Pipe,
                           released |-> FALSE, eof |-> FALSE, closed |-> FALSE]]
  /\ rules = <<>>
  /\ interest = [id \in RuleId |-> FALSE]
  /\ pc = "idle"
  /\ it = 1 /\ idx = 1
  /\ pollfds = <<>>
  /\ result = "none"
  /\ added = {}
  /\ cancels = [id \in RuleId |-> 0]
  /\ ran = <<>>

Loop ==
  \/ wait_next_event
  \/ SetUpRule
  \/ SetUpDone
  \/ PollReady
  \/ DispatchRule
  \/ DispatchDone

Next ==
  \/ Loop
  \/ PollTimesOut
  \/ PollInterrupted
  \/ PollFails
  \/ \E r \in Offered : add_rule(r)
  \/ \E f \in Fd : CloseFd(f) \/ CloseFdFails(f)
  \/ \E id \in RuleId : ChangeInterest(id)
  \/ \E f \in Fd : \/ Arrive(f) \/ PeerEnds(f) \/ PeerGoes(f)
                   \/ PeerResets(f) \/ PeerDrains(f)

Spec == Init /\ [][Next]_vars

\* wait_next_event() is straight-line code, and the application calls it
\* again until it is over; poll(2) returns once a descriptor stays ready, and
\* does not fail each time one is.  Nothing is assumed of peers, timeouts and
\* signals.
FairSpec == Spec /\ WF_vars(Loop) /\ SF_vars(PollReady)
-----------------------------------------------------------------------------
(***************************************************************************)
(* Properties.                                                             *)
(***************************************************************************)

\* The types of the loop's state.
TypeOK ==
  /\ file \in [Fd -> File]
  /\ rules \in Seq(Rule)
  /\ interest \in [RuleId -> BOOLEAN]
  /\ pc \in {"idle", "setup", "poll", "dispatch"}
  /\ it \in Nat /\ idx \in Nat
  /\ pollfds \in Seq(PollFd)
  /\ result \in {"none", "Success", "Timeout", "Exit", "threw"}
  /\ added \subseteq RuleId
  /\ cancels \in [RuleId -> Nat]
  /\ ran \in Seq(RunOf)

\* it walks _rules while rules are erased from under it, idx walks the
\* pollfds made before: from where they stand on, the k-th entry is always
\* the one made for the k-th rule, whatever callbacks did meanwhile.  (A rule
\* a callback has added lies beyond the last entry.)
EntriesMatchRules ==
  pc = "dispatch" =>
    /\ Len(rules) - it >= Len(pollfds) - idx
    /\ \A k \in 0..Len(pollfds) :
         idx + k <= Len(pollfds) => pollfds[idx + k].rule = rules[it + k].id

\* A rule that was ever added and has left _rules was told so exactly once
\* by cancel(), whichever loop found it finished, and one that is still there
\* never was, with one exception: cancel() runs before erase(), so a cancel()
\* that throws ends the loop with the rule told, once, and still there.
CancelledExactlyOnce ==
  /\ \A id \in added \ Installed : cancels[id] = 1
  /\ \A id \in Installed : cancels[id] > 0 => cancels[id] = 1 /\ result = "threw"
  /\ \A id \in Unused : cancels[id] = 0

\* wait_next_event() runs a callback only if it asked poll(2) about that very
\* rule in this call and poll(2) said that the descriptor is ready, whatever
\* was cancelled before it in the pass.  Rules that a callback has just added
\* are left out: see NoCallPastTheEnd.
CallsAreEarned ==
  [][\A id \in RuleId :
       ran' = Append(ran, Run(id, "callback")) /\ idx \in DOMAIN pollfds =>
         /\ pollfds[idx].rule = id
         /\ pollfds[idx].asked /\ pollfds[idx].ready]_vars

\* Cancelling a reading rule leaves nothing behind: unless the application
\* closed the descriptor, all that the peer ever sent has been read ("no more
\* will ever be readable"), although the peer went away between any two
\* steps of the loop.
CancelLosesNoData ==
  [][\A id \in RuleId :
       cancels'[id] # cancels[id] /\ (pc = "dispatch" => idx \in DOMAIN pollfds) =>
       LET f == rules[it].fd IN
       rules[it].direction = "In" /\ ~file[f].released =>
         file[f].inq = 0 /\ file[f].peer # "open"]_vars

\* A rule that is interested and whose descriptor is ready gets its callback
\* called, however busy the other rules are, unless readiness or interest
\* goes away first, the rule is cancelled or the loop is over.  A call of
\* wait_next_event() that has already asked for the rule's interest, and been
\* refused, does not count: it may block in poll(2) on other rules while
\* somebody's cancel() has made the rule interested.
ReadyRuleIsServed ==
  \A id \in RuleId :
    LET Waits == /\ \E k \in DOMAIN rules :
                      /\ rules[k].id = id
                      /\ interest[id]
                      /\ Ready(rules[k].fd, rules[k].direction)
                 /\ \A k \in DOMAIN pollfds : pollfds[k].rule = id => pollfds[k].asked
        Served == \E k \in DOMAIN ran : ran[k] = Run(id, "callback")
    IN  Waits ~> (~Waits \/ Served \/ Over)

\* A rule whose descriptor is closed, or at the end of what it reads, is
\* cancelled, unless the loop is over first.
FinishedRuleIsCancelled ==
  \A id \in RuleId :
    (\E k \in DOMAIN rules :
       /\ rules[k].id = id
       /\ file[rules[k].fd].closed \/ (rules[k].direction = "In" /\ file[rules[k].fd].eof))
    ~> (cancels[id] = 1 \/ Over)

\* eventloop.hh, of Success: "At least one Rule was triggered".
SuccessMeansTriggered ==
  [][pc = "dispatch" /\ result' = "Success" => ran # <<>>]_vars

\* eventloop.cc: "for each ready file descriptor, this function calls
\* Rule::callback": a callback is called only for a descriptor that poll(2) has
\* been asked about.
NoCallPastTheEnd ==
  [][\A id \in RuleId :
       ran' = Append(ran, Run(id, "callback")) => idx \in DOMAIN pollfds]_vars
=============================================================================
