---------------------------- MODULE ListenerStream ----------------------------
(***************************************************************************)
(* One radio set, the listeners of its public share link, and everything    *)
(* that changes what they hear: uploads that store a call, push it to the   *)
(* listeners and extend the set's talkgroup list; the owner's changes; the  *)
(* loop that resolves groups to talkgroups. The lock of the stream hub      *)
(* makes a push, a subscription and an update one step each; the statements *)
(* around them are not covered by it and are steps of their own.            *)
(* (src/server/internal/api/stream.go, stream_meta.go, radiosets.go,        *)
(* talkgroups.go, call_upload.go, ptt.go; database/radio_sets.go, calls.go) *)
(*                                                                          *)
(* Left out: the spelling of groups (every query takes them as the calls    *)
(* spell them); calls without a group; calls of the owner's own uploads;    *)
(* deletion of calls. Calls are dated in the order they are stored.         *)
(***************************************************************************)
EXTENDS Naturals, FiniteSets, Sequences

CONSTANTS
    Channels,       \* talkgroups of radio traffic
    Groups,         \* talkgroup groups of radio traffic
    GroupOf,        \* the group of each channel
    Virtual,        \* PTT talkgroups: "own" is the set's, "other" another set's
    Sources,        \* sources of radio traffic
    Choices,        \* what the owner may save: mode, talkgroups, groups
    Listeners,
    Uploaders, Requests, Loop,      \* handlers of uploads, of the owner; the loop
    ChannelSize,    \* chunks a listener's channel holds (32 in the code)
    SeedLimit,      \* calls seeded on connect (5 in the code)
    MaxCalls,       \* bound: calls stored
    MaxEdits        \* bound: changes by the owner or to the sources

Row == [mode : {"talkgroups", "groups"}, tgs : SUBSET Channels, groups : SUBSET Groups]

ASSUME ListenerStreamAssumption ==
    /\ GroupOf \in [Channels -> Groups]
    /\ Choices \subseteq Row
    /\ "own" \in Virtual /\ "PTT" \notin Groups /\ Virtual \cap Channels = {}
    /\ Sources # {} /\ IsFiniteSet(Channels) /\ IsFiniteSet(Listeners)
    /\ Uploaders \cap Requests = {} /\ Loop \notin Uploaders \cup Requests
    /\ ChannelSize \in Nat \ {0} /\ SeedLimit \in Nat \ {0}
    /\ MaxCalls \in Nat /\ MaxEdits \in Nat

VARIABLES
    set,        \* the row of the radio set
    link,       \* is there a share link to it, and is there the set at all
    readable,   \* sources whose calls the owner may read
    calls,      \* stored calls, oldest first
    pushed,     \* calls that were pushed to the listeners
    proc,       \* how far each handler, and the loop, is
    lst,        \* the listeners' connections
    heard,      \* calls each listener was sent
    lost,       \* calls each listener's full channel refused (history)
    since,      \* what each listener could be shown since its lookup (history)
    edits

row == <<set, link, readable>>
traffic == <<calls, pushed>>
streamVars == <<row, traffic, proc, lst, heard, lost, since, edits>>

Processes == Uploaders \cup Requests \cup {Loop}
Ids == 1..MaxCalls

\* Push-to-talk calls are all of group "PTT".
StreamTalkgroups == Channels \cup Virtual
GroupAt(tg) == IF tg \in Channels THEN GroupOf[tg] ELSE "PTT"
Ptt(k) == calls[k].tg \in Virtual

Subscription == [tgs : SUBSET StreamTalkgroups, groups : SUBSET (Groups \cup {"PTT"})]
View == [row : Row, readable : SUBSET Sources, ptt : BOOLEAN]
Stored == DOMAIN calls

StreamTypeOK ==
    /\ set \in Row
    /\ link \in {"private", "shared", "deleted"}
    /\ readable \subseteq Sources
    /\ Len(calls) <= MaxCalls
    /\ \A k \in Stored : calls[k] \in [tg : StreamTalkgroups, source : Sources]
    /\ pushed \subseteq Stored
    /\ proc \in [Processes -> [pc : {"idle", "push", "extend", "query", "write", "reread", "hub"},
                               k : 0..MaxCalls, row : Row, sub : Subscription]]
    /\ \A l \in Listeners :
          /\ lst[l].pc \in {"off", "found", "subscribed", "seeding", "live", "gone"}
          /\ lst[l].row \in Row /\ lst[l].sources \subseteq Sources
          /\ lst[l].sub \in Subscription
          /\ Len(lst[l].ch) <= ChannelSize
          /\ Len(lst[l].seed) <= SeedLimit
          /\ lst[l].seeded \subseteq Stored /\ lst[l].before \subseteq pushed
          /\ lst[l].skipped \in BOOLEAN /\ lst[l].stale \in BOOLEAN
          /\ heard[l] \subseteq Stored /\ lost[l] \subseteq pushed
          /\ since[l] \subseteq View
    /\ edits \in 0..MaxEdits

NoSub == [tgs |-> {}, groups |-> {}]
NoRow == [mode |-> "talkgroups", tgs |-> {}, groups |-> {}]
Idle == [pc |-> "idle", k |-> 0, row |-> NoRow, sub |-> NoSub]
Off == [pc |-> "off", row |-> NoRow, sources |-> {}, sub |-> NoSub, ch |-> <<>>,
        seed |-> <<>>, seeded |-> {}, before |-> {}, skipped |-> FALSE, stale |-> FALSE]

\* The set was created with any choice and is shared; nobody listens yet.
StreamInit ==
    /\ set \in Choices
    /\ link = "shared"
    /\ readable = Sources
    /\ calls = <<>> /\ pushed = {}
    /\ proc = [p \in Processes |-> Idle]
    /\ lst = [l \in Listeners |-> Off]
    /\ heard = [l \in Listeners |-> {}]
    /\ lost = [l \in Listeners |-> {}]
    /\ since = [l \in Listeners |-> {}]
    /\ edits = 0

-----------------------------------------------------------------------------
(* What a row asks for, and whom a call goes to.                            *)

\* publicStreamSubscription
Full(r) == [tgs    |-> (IF r.mode = "talkgroups" THEN r.tgs ELSE {}) \cup {"own"},
            groups |-> (IF r.mode = "groups" THEN r.groups ELSE {}) \cup {"PTT"}]

\* What resolution hands to updateRadioSetTalkgroups: the PTT part is missing.
Resolved(r) == [tgs |-> r.tgs, groups |-> r.groups]

\* matchesTalkgroup and matchesCall; a PTT call asks for no source.
Matches(l, k) ==
    /\ \/ calls[k].tg \in lst[l].sub.tgs
       \/ GroupAt(calls[k].tg) \in lst[l].sub.groups
    /\ Ptt(k) \/ calls[k].source \in lst[l].sources

FaultListening(l) == lst[l].pc \in {"seeding", "live"}

Listening(l) == lst[l].pc \in {"subscribed", "seeding", "live"}

FaultFullChannel(l) == FALSE

FullChannel(l) == Len(lst[l].ch) = ChannelSize

\* History: what may be shown to a listener that looked the set up already.
ViewOf(r, ok, ptt) == [row |-> r, readable |-> ok, ptt |-> ptt]
Shown(v) == since' = [l \in Listeners |->
                        IF since[l] = {} THEN {} ELSE since[l] \cup {v}]

-----------------------------------------------------------------------------
(* Uploads.                                                                 *)

Goes(p, state) == proc' = [proc EXCEPT ![p] = state]

\* InsertCall, of radio traffic or of a push-to-talk clip.
Store(p, tg, source) ==
    /\ p \in Uploaders /\ proc[p].pc = "idle" /\ Len(calls) < MaxCalls
    /\ calls' = Append(calls, [tg |-> tg, source |-> source])
    /\ Goes(p, [Idle EXCEPT !.pc = "push", !.k = Len(calls) + 1])
    /\ UNCHANGED <<row, pushed, lst, heard, lost, since, edits>>

\* streamHub.push: a listener whose channel is full does not get the call.
Push(p) ==
    LET k == proc[p].k
        to == {l \in Listeners : Listening(l) /\ Matches(l, k)}
    IN
    /\ proc[p].pc = "push"
    /\ pushed' = pushed \cup {k}
    /\ lst' = [l \in Listeners |-> IF l \in to /\ ~FullChannel(l)
                                   THEN [lst[l] EXCEPT !.ch = Append(@, k)] ELSE lst[l]]
    /\ lost' = [l \in Listeners |-> IF l \in to /\ FullChannel(l)
                                    THEN lost[l] \cup {k} ELSE lost[l]]
    /\ Goes(p, IF Ptt(k) THEN Idle ELSE [proc[p] EXCEPT !.pc = "extend"])
    /\ UNCHANGED <<row, calls, heard, since, edits>>

\* addCallTalkgroupToRadioSets reads the sets ...
Extend(p) ==
    LET tg == calls[proc[p].k].tg
        new == [set EXCEPT !.tgs = @ \cup {tg}]
    IN
    /\ proc[p].pc = "extend"
    /\ Goes(p, IF /\ link # "deleted" /\ set.mode = "groups"
                  /\ GroupAt(tg) \in set.groups /\ tg \notin set.tgs
               THEN [Idle EXCEPT !.pc = "write", !.row = new, !.sub = Resolved(new)]
               ELSE Idle)
    /\ UNCHANGED <<row, traffic, lst, heard, lost, since, edits>>

\* ... and SetRadioSetTalkgroups writes the list it read, with one added.
WriteList(p) ==
    /\ proc[p].pc = "write"
    /\ set' = IF link = "deleted" THEN set ELSE [set EXCEPT !.tgs = proc[p].row.tgs]
    /\ Goes(p, [proc[p] EXCEPT !.pc = "hub"])
    /\ Shown(ViewOf(set', readable, TRUE))
    /\ UNCHANGED <<link, readable, traffic, lst, heard, lost, edits>>

\* updateRadioSetTalkgroups
Update(p) ==
    /\ proc[p].pc = "hub"
    /\ lst' = [l \in Listeners |-> IF Listening(l)
                  THEN [lst[l] EXCEPT !.sub = proc[p].sub, !.stale = proc[p].row # set]
                  ELSE lst[l]]
    /\ Shown(ViewOf(proc[p].row, readable, proc[p].sub = Full(proc[p].row)))
    /\ Goes(p, Idle)
    /\ UNCHANGED <<row, traffic, heard, lost, edits>>

-----------------------------------------------------------------------------
(* The loop, every talkgroupResolutionInterval, and the owner.              *)

\* resolveRadioSetTalkgroups lists the sets ...
List ==
    /\ proc[Loop].pc = "idle"
    /\ link # "deleted" /\ set.mode = "groups" /\ set.groups # {}
    /\ Goes(Loop, [Idle EXCEPT !.pc = "query", !.row = set])
    /\ UNCHANGED <<row, traffic, lst, heard, lost, since, edits>>

\* ListDistinctTalkgroupsForGroups
InGroups(groups) == {tg \in Channels : /\ GroupOf[tg] \in groups
                                       /\ \E k \in Stored : calls[k].tg = tg}

FaultNothingNew(found, listed) == Cardinality(found) = Cardinality(listed)

NothingNew(found, listed) == found = {} \/ found = listed

\* ... asks for the talkgroups of each and writes what changed.
Query ==
    LET found == InGroups(proc[Loop].row.groups)
        new == [proc[Loop].row EXCEPT !.tgs = found]
    IN
    /\ proc[Loop].pc = "query"
    /\ Goes(Loop, IF NothingNew(found, proc[Loop].row.tgs) THEN Idle
                  ELSE [proc[Loop] EXCEPT !.pc = "write", !.row = new, !.sub = Resolved(new)])
    /\ UNCHANGED <<row, traffic, lst, heard, lost, since, edits>>

Edited == edits < MaxEdits /\ edits' = edits + 1

\* handleUpdateRadioSet: UpdateRadioSet ...
Save(p, choice) ==
    /\ p \in Requests /\ proc[p].pc = "idle" /\ link # "deleted"
    /\ Edited
    /\ set' = choice
    /\ Goes(p, [Idle EXCEPT !.pc = "reread"])
    /\ Shown(ViewOf(choice, readable, TRUE))
    /\ UNCHANGED <<link, readable, traffic, lst, heard, lost>>

FaultReread == Resolved(set)

\* ... then the row is read again; a deleted one is read as an empty one.
Reread == IF link = "deleted" THEN NoSub ELSE Full(set)
Look(p) ==
    /\ proc[p].pc = "reread"
    /\ Goes(p, [proc[p] EXCEPT !.pc = "hub", !.sub = Reread,
                               !.row = IF link = "deleted" THEN NoRow ELSE set])
    /\ UNCHANGED <<row, traffic, lst, heard, lost, since, edits>>

\* handleGenerateShareToken, handleRevokeShareToken, handleDeleteRadioSet:
\* none of them touches a listener.
Relink(new) ==
    /\ link # "deleted" /\ new # link
    /\ Edited
    /\ link' = new
    /\ UNCHANGED <<set, readable, traffic, proc, lst, heard, lost, since>>

\* A source is shared with the owner, or no longer.
Reshare(s) ==
    /\ Edited
    /\ readable' = IF s \in readable THEN readable \ {s} ELSE readable \cup {s}
    /\ Shown(ViewOf(set, readable', TRUE))
    /\ UNCHANGED <<set, link, traffic, proc, lst, heard, lost>>

-----------------------------------------------------------------------------
(* A listener: handlePublicWS, handlePublicWSMeta.                          *)

Moves(l, state) ==
    /\ lst' = [lst EXCEPT ![l] = state]
    /\ UNCHANGED <<row, traffic, proc, lost, edits>>

\* GetRadioSetByShareToken
Find(l) ==
    /\ lst[l].pc = "off" /\ link = "shared"
    /\ Moves(l, [Off EXCEPT !.pc = "found", !.row = set])
    /\ since' = [since EXCEPT ![l] = {ViewOf(set, readable, TRUE)}]
    /\ UNCHANGED heard

\* ListReadableSourceIDsForUser and subscribe, with the row that was read before.
Subscribe(l) ==
    /\ lst[l].pc = "found"
    /\ Moves(l, [lst[l] EXCEPT !.pc = "subscribed", !.sources = readable,
                               !.sub = Full(lst[l].row), !.stale = lst[l].row # set,
                               !.before = pushed])
    /\ UNCHANGED <<heard, since>>

\* The newest n of a set of calls, oldest first.
Newest(K, n) ==
    LET top == {k \in K : Cardinality({j \in K : j > k}) < n}
        Nth(i) == CHOOSE k \in top : Cardinality({j \in top : j < k}) = i - 1
    IN [i \in 1..Cardinality(top) |-> Nth(i)]

\* GetRecentCallsForRadioSet: push-to-talk fills what radio traffic leaves of a
\* set in groups mode.
Seeds(r) ==
    LET own == {k \in Stored : calls[k].tg = "own"}
        Radio(k) == ~Ptt(k) /\ calls[k].source \in readable
        byGroup == {k \in Stored : Radio(k) /\ GroupAt(calls[k].tg) \in r.groups}
        byTalkgroup == {k \in Stored : Radio(k) /\ calls[k].tg \in r.tgs}
        both == Newest(byGroup, SeedLimit) \o Newest(own, SeedLimit)
    IN IF r.mode = "talkgroups" THEN Newest(byTalkgroup \cup own, SeedLimit)
       ELSE SubSeq(both, 1, IF Len(both) < SeedLimit THEN Len(both) ELSE SeedLimit)

Seed(l) ==
    LET s == Seeds(lst[l].row) IN
    /\ lst[l].pc = "subscribed"
    /\ Moves(l, [lst[l] EXCEPT !.pc = "seeding", !.row = NoRow, !.seed = s,
                               !.seeded = {s[i] : i \in DOMAIN s}])
    /\ UNCHANGED <<heard, since>>

\* seed=0, or the query fails.
SkipSeed(l) ==
    /\ lst[l].pc = "subscribed"
    /\ Moves(l, [lst[l] EXCEPT !.pc = "live", !.row = NoRow, !.skipped = TRUE])
    /\ UNCHANGED <<heard, since>>

SendSeed(l) ==
    /\ lst[l].pc = "seeding"
    /\ IF lst[l].seed = <<>>
       THEN /\ Moves(l, [lst[l] EXCEPT !.pc = "live"])
            /\ UNCHANGED heard
       ELSE /\ Moves(l, [lst[l] EXCEPT !.seed = Tail(@)])
            /\ heard' = [heard EXCEPT ![l] = @ \cup {Head(lst[l].seed)}]
    /\ UNCHANGED since

SendLive(l) ==
    /\ lst[l].pc = "live" /\ lst[l].ch # <<>>
    /\ Moves(l, [lst[l] EXCEPT !.ch = Tail(@)])
    /\ heard' = [heard EXCEPT ![l] = @ \cup {Head(lst[l].ch)}]
    /\ UNCHANGED since

\* The client is gone or a write fails: unsubscribe.
Leave(l) ==
    /\ lst[l].pc \notin {"off", "gone"}
    /\ Moves(l, [Off EXCEPT !.pc = "gone"])
    /\ heard' = [heard EXCEPT ![l] = {}]
    /\ since' = [since EXCEPT ![l] = {}]

-----------------------------------------------------------------------------
Upload(p) == Push(p) \/ Extend(p)
Continue(p) == Upload(p) \/ WriteList(p) \/ Look(p) \/ Update(p)
Serve(l) == Subscribe(l) \/ Seed(l) \/ SendSeed(l) \/ SendLive(l)
AnySource == CHOOSE s \in Sources : TRUE

StreamNext ==
    \/ \E p \in Uploaders :
          \/ \E tg \in Channels, s \in Sources : Store(p, tg, s)
          \/ \E tg \in Virtual : Store(p, tg, AnySource)
    \/ \E p \in Processes : Continue(p)
    \/ List
    \/ Query
    \/ \E p \in Requests, choice \in Choices : Save(p, choice)
    \/ \E new \in {"private", "shared", "deleted"} : Relink(new)
    \/ \E s \in Sources : Reshare(s)
    \/ \E l \in Listeners : Find(l) \/ Serve(l) \/ SkipSeed(l) \/ Leave(l)

\* Handlers run to their end, the loop wakes again and again, and a listener
\* that stays is served.
StreamFairness ==
    /\ \A p \in Processes : WF_streamVars(Continue(p))
    /\ WF_streamVars(List) /\ WF_streamVars(Query)
    /\ \A l \in Listeners : WF_streamVars(Serve(l))

StreamSpec == StreamInit /\ [][StreamNext]_streamVars
FairStreamSpec == StreamSpec /\ StreamFairness

-----------------------------------------------------------------------------
(* Properties.                                                              *)

\* A write to the row that the listeners have not been told of.
Untold == \E p \in Processes : proc[p].pc \in {"reread", "hub"}

\* stream.go updateRadioSetTalkgroups, subscribe: once every writer has told the
\* hub, a listener is subscribed to what the row says, to its groups at least (the
\* updates of addCallTalkgroupToRadioSets and resolveRadioSetTalkgroups leave
\* the PTT talkgroup out), unless what it was last told was read before a
\* later write (stale): then it stays behind until the next one.
FollowsRow ==
    \A l \in Listeners :
        Listening(l) /\ link # "deleted" /\ ~Untold /\ ~lst[l].stale =>
            \/ lst[l].sub = Full(set)
            \/ set.mode = "groups" /\ lst[l].sub = Resolved(set)

\* A view shares a call: RF by talkgroup or group and source, PTT by its own.
Shares(v, k) ==
    \/ calls[k].tg = "own" /\ v.ptt
    \/ /\ ~Ptt(k) /\ calls[k].source \in v.readable
       /\ IF v.row.mode = "groups" THEN GroupAt(calls[k].tg) \in v.row.groups
                                   ELSE calls[k].tg \in v.row.tgs

\* The seed was full without k: of newer calls, or k is PTT and came last.
Outdone(l, k) ==
    \/ lst[l].skipped
    \/ /\ Cardinality(lst[l].seeded) = SeedLimit
       /\ Ptt(k) \/ \A j \in lst[l].seeded : j > k

Pending(l) == {lst[l].ch[i] : i \in DOMAIN lst[l].ch} \cup {lst[l].seed[i] : i \in DOMAIN lst[l].seed}

\* stream.go:318, subscribing before seeding: a call that is pushed, and that
\* every view since the lookup shares, was sent, is queued, met a full channel
\* or, if it was pushed before the subscription, was outdone in the seed.
NothingMissed ==
    \A l \in Listeners : lst[l].pc \in {"seeding", "live"} =>
        \A k \in pushed : (\A v \in since[l] : Shares(v, k)) =>
            \/ k \in heard[l] \cup Pending(l) \cup lost[l]
            \/ k \in lst[l].before /\ Outdone(l, k)

\* stream.go matchesTalkgroup, matchesCall: a listener is sent nothing but calls of
\* sources that were readable, and of talkgroups or groups that were on the row, at some
\* time since its lookup, the two not always together (the sources are read once, the
\* row's updates reach it later); and PTT calls of other sets, whose group "PTT" every
\* listener subscribes to.
HeardIsShared ==
    \A l \in Listeners, k \in Stored : k \in heard[l] =>
        \/ calls[k].tg \in Virtual
        \/ /\ \E v \in since[l] : calls[k].source \in v.readable
           /\ \E v \in since[l] : \/ calls[k].tg \in v.row.tgs
                                  \/ GroupAt(calls[k].tg) \in v.row.groups

\* Both directions: what a listener hears is what its set shares.
HearsItsSet == NothingMissed /\ HeardIsShared

\* talkgroups.go resolveRadioSetTalkgroups: two uploads that extend the list at
\* once may undo each other's addition; the loop puts it back, so that the list
\* of a set in groups mode ends up with every talkgroup heard in its groups.
ListHeals ==
    <>[](link # "deleted" /\ set.mode = "groups" => InGroups(set.groups) \subseteq set.tgs)

\* stream.go:314, "Public-share subscribers also see PTT calls on the set's
\* virtual PTT talkgroup": a PTT call pushed to a listener's set reaches it.
PttReachesListeners ==
    \A l \in Listeners : lst[l].pc = "live" =>
        \A k \in pushed \ lst[l].before :
            calls[k].tg = "own" => k \in heard[l] \cup Pending(l) \cup lost[l]

=============================================================================
