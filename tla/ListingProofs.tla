---------------------------- MODULE ListingProofs ----------------------------
(***************************************************************************)
(* Theorems about Listing, for any searches, filters, pages of rows and    *)
(* calls: SettledShowsQuery, OwnChangeIsSeen and PastEndExplained.  And    *)
(* about Session, of the browser that shows these lists, for any tabs,     *)
(* accounts, roles and logins: PageIsOfItsAccount and OwnRoleChangeShown.  *)
(***************************************************************************)
EXTENDS Listing, Session, DataProofs

\* Records, as functions on the names of their fields.
QueryIs(q) ==
  /\ q = [n \in {"search", "filter", "page"} |-> q[n]]
  /\ q.search \in Searches /\ q.filter \in Filters /\ q.page \in Nat \ {0}

\* An answer counts the pages of its query in the version it was counted in.
AnswerIs(a) ==
  /\ a = [n \in {"query", "counted", "total", "version"} |-> a[n]]
  /\ QueryIs(a.query) /\ a.counted \in 0..Len(Pages) /\ a.version \in Nat
  /\ a.total = IF a.counted = 0 THEN 1 ELSE PagesOf(a.counted, a.query)

FetchIs(c) ==
  /\ c.kind = "fetch"
  /\ c = [n \in {"kind", "why", "query", "result", "answer"} |-> c[n]]
  /\ AnswerIs(c.answer) /\ c.answer.query = c.query

ChangeIs(c) ==
  /\ c.kind # "fetch"
  /\ c = [n \in {"kind", "query", "result", "version"} |-> c[n]]
  /\ QueryIs(c.query) /\ c.version \in Nat

Numbers == 1..Len(calls)

CallTypes ==
  IsSeq(calls) /\ \A i \in Numbers : FetchIs(calls[i]) \/ ChangeIs(calls[i])
Types ==
  /\ QueryIs(query) /\ AnswerIs(shown) /\ AnswerIs(chosen)
  /\ version \in Versions /\ own \in Nat /\ typed \in Searches /\ CallTypes

\* Only the first call is served.
InTurn == \A i \in Numbers : i # 1 => calls[i].result = "none"

\* The last effect asks for the query on the screen.
IsEffect(c) == c.kind = "fetch" /\ c.why = "effect"
Effects == {i \in Numbers : IsEffect(calls[i])}
QueryInv ==
  /\ \A i \in Effects : (\A j \in Effects : j <= i) => calls[i].query = query
  /\ Effects = {} /\ last.why = "effect" /\ last.ok => shown.query = query

\* Whatever is read is not older than the user's last change.
OwnInv ==
  /\ own <= version
  /\ \A i \in Numbers :
       /\ calls[i].kind = "fetch" /\ calls[i].result = "ok" =>
            own <= calls[i].answer.version
       /\ calls[i].kind # "fetch" /\ calls[i].result = "ok" => calls[i].version <= version
  /\ \/ own <= shown.version \/ ~last.ok
     \/ \E i \in Numbers : calls[i].kind = "fetch"

\* The page was chosen among those of the answer it was chosen in.
PageInv == query.page = 1 \/ query.page <= chosen.total

Inv == Types /\ InTurn /\ QueryInv /\ OwnInv /\ PageInv

-----------------------------------------------------------------------------
(* Records.                                                                *)

LEMMA PagesAreNat ==
  ASSUME NEW v \in Versions, NEW q, QueryIs(q)
  PROVE  PagesOf(v, q) \in Nat
  <1>1. Pages[v] \in [Searches -> [Filters -> Nat]]
    BY ListingAssumption, ElementOfSeq DEF Versions
  <1> QED BY <1>1 DEF QueryIs, PagesOf

LEMMA VersionsAre == Len(Pages) \in Nat /\ Len(Pages) > 0 /\ Versions = 1..Len(Pages)
  <1>1. Pages \in Seq([Searches -> [Filters -> Nat]]) /\ Pages # <<>>
    BY ListingAssumption
  <1>2. Len(Pages) \in Nat /\ Len(Pages) # 0
    BY <1>1, EmptySeq, LenProperties
  <1> QED BY <1>2 DEF Versions

LEMMA TotalIsNat ==
  ASSUME NEW a, AnswerIs(a)
  PROVE  a.total \in Nat
  <1>1. CASE a.counted = 0
    BY <1>1 DEF AnswerIs
  <1>2. CASE a.counted # 0
    <2>1. a.counted \in Versions /\ QueryIs(a.query) /\ a.total = PagesOf(a.counted, a.query)
      BY <1>2, VersionsAre DEF AnswerIs
    <2> QED BY <2>1, PagesAreNat
  <1> QED BY <1>1, <1>2

LEMMA NoAnswerIs ==
  ASSUME NEW q, QueryIs(q)
  PROVE  AnswerIs(NoAnswer(q)) /\ NoAnswer(q).query = q /\ NoAnswer(q).version = 0
  <1>1. /\ NoAnswer(q) = [n \in {"query", "counted", "total", "version"} |-> NoAnswer(q)[n]]
        /\ NoAnswer(q).query = q /\ NoAnswer(q).counted = 0 /\ NoAnswer(q).total = 1
        /\ NoAnswer(q).version = 0
    BY DEF NoAnswer
  <1> QED BY <1>1, VersionsAre DEF AnswerIs

LEMMA NewFetchIs ==
  ASSUME NEW q, QueryIs(q), NEW why
  PROVE  /\ FetchIs(Fetch(q, why)) /\ Fetch(q, why).query = q /\ Fetch(q, why).why = why
         /\ Fetch(q, why).result = "none" /\ Fetch(q, why).kind = "fetch"
  <1>1. /\ Fetch(q, why) = [n \in {"kind", "why", "query", "result", "answer"} |-> Fetch(q, why)[n]]
        /\ Fetch(q, why).query = q /\ Fetch(q, why).why = why /\ Fetch(q, why).kind = "fetch"
        /\ Fetch(q, why).result = "none" /\ Fetch(q, why).answer = NoAnswer(q)
    BY DEF Fetch
  <1> QED BY <1>1, NoAnswerIs DEF FetchIs

LEMMA NewChangeIs ==
  ASSUME NEW q, QueryIs(q), NEW kind, kind # "fetch"
  PROVE  /\ ChangeIs(Change(kind, q)) /\ Change(kind, q).result = "none"
         /\ Change(kind, q).kind = kind
  BY DEF Change, ChangeIs

\* Another page, search or filter.
LEMMA QueryExcept ==
  ASSUME NEW q, QueryIs(q)
  PROVE  /\ \A n \in Nat \ {0} : LET p == [q EXCEPT !.page = n] IN
              QueryIs(p) /\ p.search = q.search /\ p.filter = q.filter /\ p.page = n
         /\ \A s \in Searches : LET p == [q EXCEPT !.search = s] IN
              QueryIs(p) /\ p.search = s /\ p.filter = q.filter /\ p.page = q.page
         /\ \A f \in Filters : LET p == [q EXCEPT !.filter = f] IN
              QueryIs(p) /\ p.search = q.search /\ p.filter = f /\ p.page = q.page
  BY DEF QueryIs

LEMMA SameQuery ==
  ASSUME NEW p, NEW q, QueryIs(p), QueryIs(q), Depends(p) = Depends(q)
  PROVE  p = q
  BY DEF QueryIs, Depends

LEMMA CallsAre ==
  ASSUME Types
  PROVE  Len(calls) \in Nat /\ DOMAIN calls = Numbers
  BY SeqLen DEF Types, CallTypes, Numbers

-----------------------------------------------------------------------------
(* What a step does to the calls: one is added, the first is served, the   *)
(* first is taken away, or it is and a fetch is added.                     *)

CallsKept == CallTypes' /\ InTurn' /\ QueryInv' /\ OwnInv'

Pushed(c) ==
  /\ IsSeq(calls') /\ Len(calls') = Len(calls) + 1 /\ calls'[Len(calls) + 1] = c
  /\ \A i \in Numbers : calls'[i] = calls[i]

HeadIs(c) ==
  /\ IsSeq(calls') /\ Len(calls') = Len(calls) /\ Len(calls) \in Nat \ {0}
  /\ calls'[1] = c /\ \A i \in Numbers : i # 1 => calls'[i] = calls[i]

Popped ==
  /\ IsSeq(calls') /\ Len(calls) \in Nat \ {0} /\ Len(calls') = Len(calls) - 1
  /\ \A i \in 1..Len(calls) - 1 : calls'[i] = calls[i + 1]

PoppedAndPushed(c) ==
  /\ IsSeq(calls') /\ Len(calls) \in Nat \ {0} /\ Len(calls') = Len(calls)
  /\ \A i \in 1..Len(calls) - 1 : calls'[i] = calls[i + 1]
  /\ calls'[Len(calls)] = c

LEMMA PushIs ==
  ASSUME Types, NEW c, calls' = Append(calls, c)
  PROVE  Pushed(c)
  <1>1. PICK d : d = calls'
    OBVIOUS
  <1>2. d = Append(calls, c) /\ IsSeq(calls)
    BY <1>1 DEF Types, CallTypes
  <1>3. Appended(calls, c, d)
    BY <1>2, SeqAppend
  <1> QED BY <1>1, <1>3 DEF Appended, Pushed, Numbers

LEMMA HeadOf ==
  ASSUME Types, calls # <<>>
  PROVE  Head1 = calls[1] /\ Len(calls) \in Nat \ {0} /\ 1 \in Numbers
  <1>1. Head(calls) = calls[1] /\ Len(calls) \in Nat \ {0}
    BY SeqHead DEF Types, CallTypes
  <1> QED BY <1>1 DEF Head1, Numbers

LEMMA ServeIs ==
  ASSUME Types, calls # <<>>, NEW c, calls' = [calls EXCEPT ![1] = c]
  PROVE  HeadIs(c)
  <1>1. PICK d : d = calls'
    OBVIOUS
  <1>2. d = [calls EXCEPT ![1] = c] /\ IsSeq(calls) /\ Len(calls) \in Nat \ {0}
    BY <1>1, HeadOf DEF Types, CallTypes
  <1>3. 1 \in 1..Len(calls)
    BY <1>2
  <1>4. WrittenAt(calls, 1, c, d)
    BY <1>2, <1>3, SeqWritten
  <1> QED BY <1>1, <1>2, <1>4 DEF WrittenAt, HeadIs, Numbers

LEMMA PopIs ==
  ASSUME Types, calls # <<>>, calls' = Tail(calls)
  PROVE  Popped
  <1>1. PICK d : d = calls'
    OBVIOUS
  <1>2. d = Tail(calls) /\ IsSeq(calls)
    BY <1>1 DEF Types, CallTypes
  <1>3. Dropped(calls, d)
    BY <1>2, SeqTail
  <1> QED BY <1>1, <1>3 DEF Dropped, Popped

LEMMA PopAndPushIs ==
  ASSUME Types, calls # <<>>, NEW c, calls' = Append(Tail(calls), c)
  PROVE  PoppedAndPushed(c)
  <1>1. PICK d : d = calls'
    OBVIOUS
  <1>2. PICK t : t = Tail(calls)
    OBVIOUS
  <1>3. Dropped(calls, t)
    BY <1>2, SeqTail DEF Types, CallTypes
  <1>4. d = Append(t, c) /\ IsSeq(t)
    BY <1>1, <1>2, <1>3 DEF Dropped
  <1>5. Appended(t, c, d)
    BY <1>4, SeqAppend
  <1>6. Len(t) = Len(calls) - 1 /\ Len(calls) \in Nat \ {0}
        /\ \A i \in 1..Len(calls) - 1 : t[i] = calls[i + 1]
    BY <1>3 DEF Dropped
  <1>7. /\ IsSeq(d) /\ Len(d) = Len(t) + 1 /\ d[Len(t) + 1] = c
        /\ \A i \in 1..Len(t) : d[i] = t[i]
    BY <1>5 DEF Appended
  <1> QED BY <1>1, <1>6, <1>7 DEF PoppedAndPushed

LEMMA CallsStay ==
  ASSUME Inv, UNCHANGED <<calls, query, shown, last, own>>, version' \in Versions,
         version <= version'
  PROVE  CallsKept
  <1>1. version \in Int /\ version' \in Int /\ own \in Int
    BY VersionsAre DEF Inv, Types
  <1>2. Numbers' = Numbers /\ Effects' = Effects
    BY DEF Numbers, Effects, IsEffect
  <1>3. CallTypes' /\ InTurn' /\ QueryInv'
    BY <1>2 DEF Inv, Types, CallTypes, InTurn, QueryInv
  <1>4. OwnInv'
    <2>1. own <= version'
      BY <1>1 DEF Inv, OwnInv
    <2>2. \A i \in Numbers : calls[i].kind # "fetch" /\ calls[i].result = "ok" =>
            calls[i].version <= version'
      <3>1. \A i \in Numbers : calls[i].kind # "fetch" => calls[i].version \in Int
        <4>1. \A c : (FetchIs(c) => c.kind = "fetch") /\ (ChangeIs(c) => c.version \in Nat)
          BY Zenon DEF FetchIs, ChangeIs
        <4> QED BY <4>1 DEF Inv, Types, CallTypes
      <3> QED BY <1>1, <3>1 DEF Inv, OwnInv
    <2> QED BY <1>2, <2>1, <2>2 DEF Inv, OwnInv
  <1> QED BY <1>3, <1>4 DEF CallsKept

\* The query is another one, and a fetch of it is the last of the calls.
LEMMA EffectKeeps ==
  ASSUME Inv, NEW c, FetchIs(c), c.why = "effect", c.result = "none", c.query = query',
         calls' = Append(calls, c), UNCHANGED <<shown, last, own, version>>
  PROVE  CallsKept
  <1>1. Pushed(c) /\ Len(calls) \in Nat
    BY PushIs, CallsAre DEF Inv
  <1>2. CallTypes'
    BY <1>1 DEF Inv, Types, CallTypes, Pushed, Numbers
  <1>3. InTurn'
    BY <1>1 DEF Inv, InTurn, Pushed, Numbers
  <1>4. QueryInv'
    BY <1>1 DEF Inv, QueryInv, Pushed, Numbers, Effects, IsEffect, FetchIs
  <1>5. OwnInv'
    BY <1>1 DEF Inv, OwnInv, Pushed, Numbers, FetchIs
  <1> QED BY <1>2, <1>3, <1>4, <1>5 DEF CallsKept

\* A change is the last of the calls.
LEMMA ChangeKeeps ==
  ASSUME Inv, NEW c, ChangeIs(c), c.result = "none",
         calls' = Append(calls, c), UNCHANGED <<query, shown, last, own, version>>
  PROVE  CallsKept
  <1>1. Pushed(c) /\ Len(calls) \in Nat
    BY PushIs, CallsAre DEF Inv
  <1>2. CallTypes'
    BY <1>1 DEF Inv, Types, CallTypes, Pushed, Numbers
  <1>3. InTurn'
    BY <1>1 DEF Inv, InTurn, Pushed, Numbers
  <1>4. QueryInv'
    <2>1. Effects' = Effects
      BY <1>1 DEF Pushed, Numbers, Effects, IsEffect, ChangeIs
    <2> QED BY <1>1, <2>1 DEF Inv, QueryInv, Pushed, Effects
  <1>5. OwnInv'
    BY <1>1 DEF Inv, OwnInv, Pushed, Numbers, ChangeIs
  <1> QED BY <1>2, <1>3, <1>4, <1>5 DEF CallsKept

\* The first call is served.
LEMMA ServedKeeps ==
  ASSUME Inv, calls # <<>>, NEW c, calls' = [calls EXCEPT ![1] = c],
         UNCHANGED <<query, shown, last, own>>, version' \in Versions, version <= version',
         c.kind = calls[1].kind, c.query = calls[1].query,
         \/ /\ FetchIs(c) /\ c.why = calls[1].why
            /\ c.result = "ok" => c.answer.version = version'
         \/ /\ ChangeIs(c)
            /\ c.result = "ok" => c.version = version'
  PROVE  CallsKept
  <1>1. HeadIs(c) /\ Len(calls) \in Nat \ {0} /\ 1 \in Numbers
    BY ServeIs, HeadOf DEF Inv
  <1>n. version \in Int /\ version' \in Int /\ own \in Int
    BY VersionsAre DEF Inv, Types
  <1>2. CallTypes'
    BY <1>1 DEF Inv, Types, CallTypes, HeadIs, Numbers
  <1>3. InTurn'
    BY <1>1 DEF Inv, InTurn, HeadIs, Numbers
  <1>4. QueryInv'
    <2>1. Effects' = Effects /\ \A i \in Effects : calls'[i].query = calls[i].query
      BY <1>1 DEF HeadIs, Numbers, Effects, IsEffect, ChangeIs, FetchIs
    <2> QED BY <2>1 DEF Inv, QueryInv
  <1>5. OwnInv'
    <2>1. own <= version /\ own' = own /\ own <= version'
      BY <1>n DEF Inv, OwnInv
    <2>2. Numbers' = Numbers /\ calls'[1] = c /\ \A i \in Numbers : i # 1 => calls'[i] = calls[i]
      BY <1>1 DEF HeadIs, Numbers
    <2>3. \A i \in Numbers : calls'[i].kind = calls[i].kind
      BY <2>2
    <2>4. \A i \in Numbers : i # 1 => calls'[i].result = "none"
      BY <2>2 DEF Inv, InTurn
    <2>5. /\ c.kind = "fetch" /\ c.result = "ok" => own' <= c.answer.version
          /\ c.kind # "fetch" /\ c.result = "ok" => c.version <= version'
      BY <2>1, <1>n DEF ChangeIs, FetchIs
    <2> QED BY <2>1, <2>2, <2>3, <2>4, <2>5 DEF Inv, OwnInv
  <1> QED BY <1>2, <1>3, <1>4, <1>5 DEF CallsKept

-----------------------------------------------------------------------------
(* The actions of the user.                                                *)

LEMMA Combined ==
  ASSUME QueryIs(query'), AnswerIs(shown'), AnswerIs(chosen'), version' \in Versions,
         own' \in Nat, typed' \in Searches, CallsKept, PageInv'
  PROVE  Inv'
  BY DEF Inv, Types, CallsKept, Versions, AnswerIs, QueryIs

LEMMA VersionStays ==
  ASSUME Inv, version' = version
  PROVE  version' \in Versions /\ version <= version'
  BY VersionsAre DEF Inv, Types

LEMMA NowKeeps ==
  ASSUME Inv, NEW q, QueryIs(q), Now(q), UNCHANGED <<shown, last, own, version>>
  PROVE  CallsKept /\ query' = q
  <1>1. CASE Depends(q) = Depends(query)
    <2>1. q = query /\ query' = query /\ calls' = calls
      BY <1>1, SameQuery DEF Now, Inv, Types
    <2> QED BY <2>1, CallsStay, VersionStays
  <1>2. CASE Depends(q) # Depends(query)
    <2>1. query' = q /\ calls' = Append(calls, Fetch(q, "effect"))
      BY <1>2 DEF Now
    <2>2. /\ FetchIs(Fetch(q, "effect")) /\ Fetch(q, "effect").query = q
          /\ Fetch(q, "effect").why = "effect" /\ Fetch(q, "effect").result = "none"
      BY NewFetchIs
    <2> QED BY <2>1, <2>2, EffectKeeps
  <1> QED BY <1>1, <1>2

\* The page stays, or is the first, and no other is chosen.
LEMMA SamePageKeeps ==
  ASSUME Inv, NEW q, QueryIs(q), Now(q), UNCHANGED <<shown, last, own, chosen, version>>,
         typed' \in Searches, q.page = query.page \/ q.page = 1
  PROVE  Inv'
  <1>1. CallsKept /\ query' = q
    BY NowKeeps
  <1>2. PageInv'
    BY <1>1 DEF Inv, PageInv
  <1>3. version' \in Versions
    BY VersionStays
  <1> QED BY <1>1, <1>2, <1>3, Combined DEF Inv, Types

LEMMA RestartedIs ==
  ASSUME NEW q, QueryIs(q)
  PROVE  QueryIs(Restarted(q)) /\ (Restarted(q).page = q.page \/ Restarted(q).page = 1)
  BY QueryExcept DEF Restarted

LEMMA TypeKeeps ==
  ASSUME Inv, NEW s \in Searches, Type(s)
  PROVE  Inv'
  <1>1. QueryIs(query)
    BY DEF Inv, Types
  <1>2. Now(Restarted(query)) /\ UNCHANGED <<shown, last, own, chosen, version>> /\ typed' = s
    BY DEF Type, history
  <1> QED BY <1>1, <1>2, RestartedIs, SamePageKeeps

LEMMA ChooseFilterKeeps ==
  ASSUME Inv, NEW f \in Filters, ChooseFilter(f)
  PROVE  Inv'
  <1> DEFINE q == [query EXCEPT !.filter = f]
  <1>1. QueryIs(q) /\ q.page = query.page
    BY QueryExcept DEF Inv, Types
  <1>2. Now(Restarted(q)) /\ UNCHANGED <<shown, last, own, chosen, version>>
        /\ typed' \in Searches
    BY DEF ChooseFilter, history, Inv, Types
  <1> HIDE DEF q
  <1> QED BY <1>1, <1>2, RestartedIs, SamePageKeeps

LEMMA DebounceKeeps ==
  ASSUME Inv, Debounce
  PROVE  Inv'
  <1> DEFINE q == [query EXCEPT !.search = typed]
  <1>1. QueryIs(q) /\ q.page = query.page
    BY QueryExcept DEF Inv, Types
  <1>2. Now(q) /\ UNCHANGED <<shown, last, own, chosen, version>>
        /\ typed' \in Searches
    BY DEF Debounce, history, Inv, Types
  <1> HIDE DEF q
  <1> QED BY <1>1, <1>2, SamePageKeeps

LEMMA GoToKeeps ==
  ASSUME Inv, NEW n \in Nat, GoTo(n)
  PROVE  Inv'
  <1>1. /\ QueryIs(query) /\ AnswerIs(shown) /\ AnswerIs(chosen) /\ query.page \in Nat \ {0}
        /\ shown.total \in Nat /\ chosen.total \in Nat
    BY TotalIsNat DEF Inv, Types, QueryIs
  <1>2. n \in Buttons /\ Now([query EXCEPT !.page = n])
        /\ chosen' = (IF n <= shown.total THEN shown ELSE chosen)
        /\ UNCHANGED <<shown, last, own, version>>
    BY DEF GoTo
  <1>3. n # 0 /\ (n <= shown.total \/ n = query.page - 1)
    BY <1>1, <1>2 DEF Buttons, Numbered
  <1> DEFINE q == [query EXCEPT !.page = n]
  <1>4. QueryIs(q) /\ q.page = n
    BY <1>1, <1>3, QueryExcept
  <1>5. Now(q)
    BY <1>2
  <1> HIDE DEF q
  <1>6. CallsKept /\ query' = q
    BY <1>2, <1>4, <1>5, NowKeeps
  <1>7. PageInv'
    BY <1>1, <1>2, <1>3, <1>4, <1>6 DEF Inv, PageInv
  <1>8. AnswerIs(shown') /\ AnswerIs(chosen')
    BY <1>1, <1>2
  <1>9. version' \in Versions /\ own' \in Nat /\ typed' \in Searches
    BY <1>2 DEF Inv, Types, GoTo
  <1> QED BY <1>4, <1>6, <1>7, <1>8, <1>9, Combined

LEMMA SendKeeps ==
  ASSUME Inv, Save \/ Delete
  PROVE  Inv'
  <1>1. PICK kind \in {"save", "delete"} : calls' = Append(calls, Change(kind, query))
    BY DEF Save, Delete
  <1>2. UNCHANGED <<query, shown, last, own, chosen, version, typed>>
    BY DEF Save, Delete, history
  <1>3. CallsKept
    <2>1. kind # "fetch" /\ QueryIs(query)
      BY DEF Inv, Types
    <2>2. ChangeIs(Change(kind, query)) /\ Change(kind, query).result = "none"
      BY <2>1, NewChangeIs
    <2> QED BY <1>1, <1>2, <2>2, ChangeKeeps
  <1>4. PageInv'
    BY <1>2 DEF Inv, PageInv
  <1> QED BY <1>2, <1>3, <1>4, Combined DEF Inv, Types

\* What does not touch the calls, the query and the answers.
LEMMA RestKeeps ==
  ASSUME Inv, UNCHANGED <<calls, query, shown, last, own, chosen, typed>>,
         version' \in Versions, version <= version'
  PROVE  Inv'
  <1>1. CallsKept
    BY CallsStay
  <1>2. PageInv'
    BY DEF Inv, PageInv
  <1> QED BY <1>1, <1>2, Combined DEF Inv, Types

LEMMA OthersKeep ==
  ASSUME Inv, Others
  PROVE  Inv'
  <1>1. version' \in Versions /\ version <= version'
    BY VersionsAre DEF Inv, Types, Others
  <1> QED BY <1>1, RestKeeps DEF Others, history

-----------------------------------------------------------------------------
(* The server and the answers.                                             *)

LEMMA ServeKeeps ==
  ASSUME Inv, Serve
  PROVE  Inv'
  <1>0. /\ calls # <<>> /\ Head1 = calls[1] /\ 1 \in Numbers
        /\ UNCHANGED <<query, shown, last, own, chosen, typed>>
    BY HeadOf DEF Serve, Inv, history
  <1>1. FetchIs(calls[1]) \/ ChangeIs(calls[1])
    BY <1>0 DEF Inv, Types, CallTypes
  <1> DEFINE Served1(c) ==
        /\ calls' = [calls EXCEPT ![1] = c]
        /\ version' \in Versions /\ version <= version'
        /\ c.kind = calls[1].kind /\ c.query = calls[1].query
        /\ \/ /\ FetchIs(c) /\ c.why = calls[1].why
              /\ c.result = "ok" => c.answer.version = version'
           \/ /\ ChangeIs(c)
              /\ c.result = "ok" => c.version = version'
  <1>2. \E c : Served1(c)
    <2>1. CASE CountRows
      <3> DEFINE a == [calls[1].answer EXCEPT !.counted = version,
                                              !.total = PagesOf(version, calls[1].query)]
                 c == [calls[1] EXCEPT !.result = "counted", !.answer = a]
      <3>1. calls' = [calls EXCEPT ![1] = c] /\ version' = version /\ calls[1].kind = "fetch"
        BY <1>0, <2>1 DEF CountRows
      <3>2. FetchIs(calls[1]) /\ AnswerIs(calls[1].answer)
            /\ calls[1].answer.query = calls[1].query
        BY <1>1, <3>1 DEF FetchIs, ChangeIs
      <3>3. AnswerIs(a) /\ a.query = calls[1].query
        <4>1. version \in 1..Len(Pages) /\ version # 0 /\ version \in 0..Len(Pages)
          BY VersionsAre DEF Inv, Types
        <4> QED BY <3>2, <4>1 DEF AnswerIs
      <3> HIDE DEF a
      <3>4. /\ FetchIs(c) /\ c.kind = calls[1].kind /\ c.query = calls[1].query
            /\ c.why = calls[1].why /\ c.result = "counted"
        BY <3>2, <3>3 DEF FetchIs
      <3> HIDE DEF c
      <3>5. Served1(c)
        BY <3>1, <3>4, VersionStays
      <3> QED BY <3>5
    <2>2. CASE ReadRows
      <3> DEFINE a == [calls[1].answer EXCEPT !.version = version]
                 c == [calls[1] EXCEPT !.result = "ok", !.answer = a]
      <3>1. calls' = [calls EXCEPT ![1] = c] /\ version' = version /\ calls[1].kind = "fetch"
        BY <1>0, <2>2 DEF ReadRows
      <3>2. FetchIs(calls[1]) /\ AnswerIs(calls[1].answer)
            /\ calls[1].answer.query = calls[1].query
        BY <1>1, <3>1 DEF FetchIs, ChangeIs
      <3>3. AnswerIs(a) /\ a.query = calls[1].query /\ a.version = version
        <4>1. version \in Nat
          BY VersionsAre DEF Inv, Types
        <4> QED BY <3>2, <4>1 DEF AnswerIs
      <3> HIDE DEF a
      <3>4. /\ FetchIs(c) /\ c.kind = calls[1].kind /\ c.query = calls[1].query
            /\ c.why = calls[1].why /\ c.answer.version = version
        BY <3>2, <3>3 DEF FetchIs
      <3> HIDE DEF c
      <3>5. Served1(c)
        BY <3>1, <3>4, VersionStays
      <3> QED BY <3>5
    <2>3. CASE ServeChange
      <3> DEFINE c == [calls[1] EXCEPT !.result = "ok", !.version = version + 1]
      <3>1. calls' = [calls EXCEPT ![1] = c] /\ version' = version + 1
            /\ version < Len(Pages) /\ calls[1].kind # "fetch"
        BY <1>0, <2>3 DEF ServeChange
      <3>2. version \in Nat /\ version' \in Versions /\ version <= version'
        BY <3>1, VersionsAre DEF Inv, Types
      <3>3. ChangeIs(calls[1])
        BY <1>1, <3>1 DEF FetchIs
      <3>4. /\ ChangeIs(c) /\ c.kind = calls[1].kind /\ c.query = calls[1].query
            /\ c.version = version'
        <4>1. version + 1 \in Nat
          BY <3>2
        <4>2. /\ ChangeIs(c) /\ c.kind = calls[1].kind /\ c.query = calls[1].query
              /\ c.version = version + 1
          BY <3>3, <4>1 DEF ChangeIs
        <4> QED BY <3>1, <4>2
      <3> HIDE DEF c
      <3>5. Served1(c)
        BY <3>1, <3>2, <3>4
      <3> QED BY <3>5
    <2>4. CASE ServeFails
      <3>1. PICK r \in {"failed", "rejected"} :
              calls' = [calls EXCEPT ![1].result = r] /\ version' = version
        BY <2>4 DEF ServeFails, Served
      <3> DEFINE c == [calls[1] EXCEPT !.result = r]
      <3>2. calls' = [calls EXCEPT ![1] = c]
        BY <3>1
      <3>3. /\ (FetchIs(c) /\ c.why = calls[1].why) \/ ChangeIs(c)
            /\ c.kind = calls[1].kind /\ c.query = calls[1].query /\ c.result # "ok"
        BY <1>1 DEF FetchIs, ChangeIs
      <3> HIDE DEF c
      <3>4. Served1(c)
        BY <3>1, <3>2, <3>3, VersionStays
      <3> QED BY <3>4
    <2> QED BY <2>1, <2>2, <2>3, <2>4 DEF Serve
  <1>3. PICK c : Served1(c)
    BY <1>2
  <1>4. CallsKept
    BY <1>0, <1>3, ServedKeeps
  <1>5. PageInv'
    BY <1>0 DEF Inv, PageInv
  <1>6. version' \in Versions
    BY <1>3
  <1> QED BY <1>0, <1>4, <1>5, <1>6, Combined DEF Inv, Types

LEMMA Shifted ==
  ASSUME Inv, calls # <<>>, Popped
  PROVE  /\ CallTypes' /\ InTurn' /\ \A i \in Numbers' : calls'[i].result = "none"
         /\ Numbers' = 1..Len(calls) - 1
         /\ \A i \in Numbers' : i + 1 \in Numbers /\ calls'[i] = calls[i + 1]
         /\ \A i \in Numbers : i # 1 => i - 1 \in Numbers' /\ calls'[i - 1] = calls[i]
         /\ \A i \in Numbers' : i \in Effects' <=> i + 1 \in Effects
  <1>1. /\ Len(calls) \in Nat \ {0} /\ Numbers' = 1..Len(calls) - 1 /\ Numbers = 1..Len(calls)
        /\ IsSeq(calls') /\ \A i \in 1..Len(calls) - 1 : calls'[i] = calls[i + 1]
    BY DEF Popped, Numbers
  <1>2. \A i \in Numbers' : i + 1 \in Numbers /\ i + 1 # 1 /\ calls'[i] = calls[i + 1]
    BY <1>1
  <1>3. \A i \in Numbers : i # 1 => i - 1 \in Numbers' /\ (i - 1) + 1 = i
    BY <1>1
  <1>4. CallTypes'
    BY <1>1, <1>2 DEF Inv, Types, CallTypes
  <1>5. \A i \in Numbers' : calls'[i].result = "none"
    BY <1>2 DEF Inv, InTurn
  <1>6. InTurn'
    BY <1>5 DEF InTurn
  <1>7. \A i \in Numbers' : i \in Effects' <=> i + 1 \in Effects
    BY <1>2 DEF Effects, IsEffect
  <1>8. \A i \in Numbers : i # 1 => calls'[i - 1] = calls[i]
    BY <1>2, <1>3
  <1> QED BY <1>1, <1>2, <1>3, <1>4, <1>5, <1>6, <1>7, <1>8

LEMMA FetchEndsKeeps ==
  ASSUME Inv, calls # <<>>, FetchEnds, UNCHANGED <<typed, query, version>>
  PROVE  Inv'
  <1>0. /\ Head1 = calls[1] /\ 1 \in Numbers /\ Len(calls) \in Nat \ {0}
        /\ calls[1].kind = "fetch" /\ calls' = Tail(calls) /\ UNCHANGED <<own, chosen>>
        /\ shown' = (IF calls[1].result = "ok" THEN calls[1].answer ELSE shown)
        /\ last'.why = calls[1].why /\ last'.ok = (calls[1].result = "ok")
    BY HeadOf DEF FetchEnds, Inv
  <1>1. FetchIs(calls[1])
    BY <1>0 DEF Inv, Types, CallTypes, ChangeIs
  <1>2. Popped
    BY <1>0, PopIs DEF Inv
  <1>3. CallTypes' /\ InTurn'
    BY <1>2, Shifted
  <1>4. QueryInv'
    <2>1. ASSUME NEW i \in Effects', \A j \in Effects' : j <= i
          PROVE  calls'[i].query = query
      <3>1. i \in Numbers' /\ i \in 1..Len(calls) - 1
        BY <1>2, Shifted DEF Effects
      <3>2. i + 1 \in Effects /\ calls'[i] = calls[i + 1]
        BY <1>2, <3>1, Shifted, <2>1
      <3>3. ASSUME NEW j \in Effects PROVE j <= i + 1
        <4>1. CASE j = 1
          BY <3>1, <4>1
        <4>2. CASE j # 1
          <5>1. j \in Numbers /\ j \in 1..Len(calls)
            BY DEF Effects, Numbers
          <5>2. j - 1 \in Numbers' /\ (j - 1) + 1 = j
            BY <1>2, <4>2, <5>1, Shifted
          <5>3. j - 1 \in Effects'
            BY <1>2, <5>2, Shifted
          <5>4. j - 1 <= i
            BY <2>1, <5>3
          <5> QED BY <3>1, <5>1, <5>4
        <4> QED BY <4>1, <4>2
      <3> QED BY <3>2, <3>3 DEF Inv, QueryInv
    <2>2. ASSUME Effects' = {}, last'.why = "effect", last'.ok PROVE shown'.query = query
      <3>1. \A j \in Effects : j = 1
        BY <1>2, <2>2, Shifted DEF Effects
      <3>2. 1 \in Effects
        BY <1>0, <2>2 DEF Effects, IsEffect
      <3>3. calls[1].query = query
        BY <3>1, <3>2 DEF Inv, QueryInv
      <3>4. shown' = calls[1].answer
        BY <1>0, <2>2
      <3> QED BY <1>1, <3>3, <3>4 DEF FetchIs
    <2> QED BY <2>1, <2>2 DEF QueryInv
  <1>5. OwnInv'
    <2>1. own <= version /\ \A i \in Numbers' : calls'[i].result = "none"
      BY <1>2, Shifted DEF Inv, OwnInv
    <2>2. last'.ok => own <= shown'.version
      BY <1>0 DEF Inv, OwnInv
    <2> QED BY <1>0, <2>1, <2>2 DEF OwnInv
  <1>6. AnswerIs(shown')
    BY <1>0, <1>1 DEF Inv, Types, FetchIs
  <1>7. PageInv'
    BY <1>0 DEF Inv, PageInv
  <1> QED BY <1>0, <1>3, <1>4, <1>5, <1>6, <1>7, Combined DEF Inv, Types, CallsKept

LEMMA ChangeEndsKeeps ==
  ASSUME Inv, calls # <<>>, ChangeEnds, UNCHANGED <<typed, query, version>>
  PROVE  Inv'
  <1>0. /\ Head1 = calls[1] /\ 1 \in Numbers /\ Len(calls) \in Nat \ {0}
        /\ calls[1].kind # "fetch" /\ UNCHANGED <<shown, last, chosen>>
    BY HeadOf DEF ChangeEnds, Inv
  <1>1. ChangeIs(calls[1])
    BY <1>0 DEF Inv, Types, CallTypes, FetchIs
  <1>n. 1 \notin Effects
    BY <1>0 DEF Effects, IsEffect
  <1>7. PageInv'
    BY <1>0 DEF Inv, PageInv
  <1>8. CASE calls[1].result # "ok"
    <2>0. calls' = Tail(calls) /\ own' = own
      BY <1>0, <1>8 DEF ChangeEnds
    <2>1. Popped
      BY <1>0, <2>0, PopIs DEF Inv
    <2>2. CallTypes' /\ InTurn'
      BY <2>1, Shifted
    <2>3. QueryInv'
      <3>1. ASSUME NEW i \in Effects', \A j \in Effects' : j <= i
            PROVE  calls'[i].query = query
        <4>1. i \in Numbers' /\ i \in 1..Len(calls) - 1
          BY <2>1, Shifted DEF Effects
        <4>2. i + 1 \in Effects /\ calls'[i] = calls[i + 1]
          BY <2>1, <4>1, Shifted, <3>1
        <4>3. ASSUME NEW j \in Effects PROVE j <= i + 1
          <5>1. j \in Numbers /\ j \in 1..Len(calls) /\ j # 1
            BY <1>n DEF Effects, Numbers
          <5>2. j - 1 \in Numbers' /\ (j - 1) + 1 = j
            BY <2>1, <5>1, Shifted
          <5>3. j - 1 \in Effects'
            BY <2>1, <5>2, Shifted
          <5>4. j - 1 <= i
            BY <3>1, <5>3
          <5> QED BY <4>1, <5>1, <5>4
        <4> QED BY <4>2, <4>3 DEF Inv, QueryInv
      <3>2. Effects' = {} => Effects = {}
        <4>1. ASSUME NEW j \in Effects PROVE j - 1 \in Effects'
          <5>1. j \in Numbers /\ j # 1 /\ j \in 1..Len(calls)
            BY <1>n DEF Effects, Numbers
          <5>2. j - 1 \in Numbers' /\ (j - 1) + 1 = j
            BY <2>1, <5>1, Shifted
          <5> QED BY <2>1, <5>2, Shifted
        <4> QED BY <4>1
      <3> QED BY <1>0, <3>1, <3>2 DEF Inv, QueryInv
    <2>4. OwnInv'
      <3>1. own <= version /\ \A i \in Numbers' : calls'[i].result = "none"
        BY <2>1, Shifted DEF Inv, OwnInv
      <3>2. (\E i \in Numbers : calls[i].kind = "fetch") =>
               \E i \in Numbers' : calls'[i].kind = "fetch"
        BY <1>0, <2>1, Shifted
      <3> QED BY <1>0, <2>0, <3>1, <3>2 DEF Inv, OwnInv
    <2> QED BY <1>0, <1>7, <2>0, <2>2, <2>3, <2>4, Combined DEF Inv, Types, CallsKept
  <1>9. CASE calls[1].result = "ok"
    <2> DEFINE c == Fetch(calls[1].query, "refetch")
    <2>0. calls' = Append(Tail(calls), c) /\ own' = calls[1].version
      BY <1>0, <1>9 DEF ChangeEnds
    <2>c. FetchIs(c) /\ c.kind = "fetch" /\ c.result = "none" /\ c.why = "refetch"
      <3>1. QueryIs(calls[1].query)
        BY <1>1 DEF ChangeIs
      <3> QED BY <3>1, NewFetchIs
    <2> HIDE DEF c
    <2>1. PoppedAndPushed(c)
      BY <1>0, <2>0, PopAndPushIs DEF Inv
    <2>2. /\ IsSeq(calls') /\ Numbers' = Numbers /\ Numbers = 1..Len(calls)
          /\ \A i \in Numbers : i # Len(calls) => i + 1 \in Numbers /\ calls'[i] = calls[i + 1]
          /\ \A i \in Numbers : i # 1 => i - 1 \in Numbers /\ calls'[i - 1] = calls[i]
          /\ calls'[Len(calls)] = c /\ Len(calls) \in Numbers
      BY <1>0, <2>1 DEF PoppedAndPushed, Numbers
    <2>3. CallTypes'
      BY <2>2, <2>c DEF Inv, Types, CallTypes
    <2>4. \A i \in Numbers' : calls'[i].result = "none"
      <3>1. ASSUME NEW i \in Numbers, i # Len(calls) PROVE i + 1 # 1
        BY <2>2
      <3> QED BY <2>2, <2>c, <3>1 DEF Inv, InTurn
    <2>5. InTurn'
      BY <2>4 DEF InTurn
    <2>6. /\ \A i \in Effects' : i \in 1..Len(calls) - 1 /\ i + 1 \in Effects
                                 /\ calls'[i] = calls[i + 1]
          /\ \A i \in Effects : i \in 1..Len(calls) /\ i # 1 /\ i - 1 \in Effects'
      <3>1. ASSUME NEW i \in Effects'
            PROVE  i \in 1..Len(calls) - 1 /\ i + 1 \in Effects /\ calls'[i] = calls[i + 1]
        <4>1. i \in Numbers /\ i # Len(calls)
          BY <2>2, <2>c DEF Effects, IsEffect
        <4> QED BY <1>0, <2>2, <4>1 DEF Effects, IsEffect
      <3>2. ASSUME NEW i \in Effects
            PROVE  i \in 1..Len(calls) /\ i # 1 /\ i - 1 \in Effects'
        BY <1>n, <2>2 DEF Effects, IsEffect
      <3> QED BY <3>1, <3>2
    <2>7. QueryInv'
      <3>1. ASSUME NEW i \in Effects', \A j \in Effects' : j <= i
            PROVE  calls'[i].query = query
        <4>1. ASSUME NEW j \in Effects PROVE j <= i + 1
          <5>1. j - 1 <= i /\ j \in Int /\ i \in Int
            BY <1>0, <2>6, <3>1
          <5> QED BY <5>1
        <4> QED BY <2>6, <3>1, <4>1 DEF Inv, QueryInv
      <3>2. Effects' = {} => Effects = {}
        BY <2>6
      <3> QED BY <1>0, <3>1, <3>2 DEF Inv, QueryInv
    <2>8. OwnInv' /\ own' \in Nat
      <3>1. own' <= version /\ own' \in Nat
        BY <1>0, <1>1, <1>9, <2>0 DEF Inv, OwnInv, ChangeIs
      <3>2. \E i \in Numbers' : calls'[i].kind = "fetch"
        BY <2>2, <2>c
      <3> QED BY <2>4, <3>1, <3>2 DEF OwnInv
    <2> QED BY <1>0, <1>7, <2>3, <2>5, <2>7, <2>8, Combined DEF Inv, Types, CallsKept
  <1> QED BY <1>8, <1>9

-----------------------------------------------------------------------------
(* The theorems.                                                           *)

LEMMA FirstQueryIs ==
  ASSUME NEW s \in Searches, NEW f \in Filters
  PROVE  LET q == [search |-> s, filter |-> f, page |-> 1] IN QueryIs(q) /\ q.page = 1
  BY DEF QueryIs

LEMMA OneCallIs ==
  ASSUME NEW c
  PROVE  <<c>> \in Seq({c}) /\ Len(<<c>>) = 1 /\ <<c>>[1] = c
  OBVIOUS

LEMMA InvInit ==
  ASSUME Init
  PROVE  Inv
  <1> DEFINE q == [search |-> "", filter |-> "all", page |-> 1]
             c == Fetch(q, "effect")
  <1>0. /\ query = q /\ shown = NoAnswer(q) /\ chosen = NoAnswer(q) /\ typed = ""
        /\ calls = <<c>> /\ ~last.ok
    BY DEF Init
  <1>n. version = 1 /\ own = 0
    BY DEF Init
  <1>1. QueryIs(q) /\ q.page = 1
    BY ListingAssumption, FirstQueryIs
  <1> HIDE DEF q
  <1>2. FetchIs(c) /\ c.query = q /\ c.kind = "fetch" /\ c.result = "none"
    BY <1>1, NewFetchIs
  <1> HIDE DEF c
  <1>3. IsSeq(calls) /\ Numbers = {1} /\ calls[1] = c
    <2>1. calls \in Seq({c}) /\ Len(calls) = 1 /\ calls[1] = c
      BY <1>0, OneCallIs
    <2> QED BY <2>1 DEF IsSeq, Numbers
  <1>4. Types
    <2>1. QueryIs(query) /\ AnswerIs(shown) /\ AnswerIs(chosen)
      BY <1>0, <1>1, NoAnswerIs
    <2>2. version \in Versions /\ own \in Nat
      BY <1>n, VersionsAre
    <2>3. typed \in Searches
      BY <1>0, ListingAssumption
    <2>4. CallTypes
      BY <1>2, <1>3 DEF CallTypes
    <2> QED BY <2>1, <2>2, <2>3, <2>4 DEF Types
  <1>5. InTurn
    BY <1>3 DEF InTurn
  <1>6. QueryInv
    BY <1>0, <1>2, <1>3 DEF QueryInv, Effects
  <1>7. OwnInv
    <2>1. own <= version
      BY <1>n
    <2>2. \A i \in Numbers : calls[i].kind = "fetch" /\ calls[i].result # "ok"
      BY <1>2, <1>3
    <2> QED BY <1>3, <2>1, <2>2 DEF OwnInv
  <1>8. PageInv
    BY <1>0, <1>1 DEF PageInv
  <1> QED BY <1>4, <1>5, <1>6, <1>7, <1>8 DEF Inv

LEMMA InvHolds == Spec => []Inv
  <1>1. Inv /\ [Next]_vars => Inv'
    <2> SUFFICES ASSUME Inv, [Next]_vars PROVE Inv'
      OBVIOUS
    <2>1. CASE UNCHANGED vars
      BY <2>1, RestKeeps, VersionStays DEF vars, history
    <2>2. ASSUME NEW n \in 0..(query.page + shown.total + 1), GoTo(n) PROVE Inv'
      BY <2>2, GoToKeeps
    <2>3. CASE OpenForm
      BY <2>3, RestKeeps, VersionStays DEF OpenForm, history
    <2>4. CASE Deliver
      BY <2>4, FetchEndsKeeps, ChangeEndsKeeps DEF Deliver
    <2> QED BY <2>1, <2>2, <2>3, <2>4, TypeKeeps, ChooseFilterKeeps, DebounceKeeps,
               SendKeeps, OthersKeep, ServeKeeps DEF Next
  <1> QED BY <1>1, InvInit, PTL DEF Spec

\* Fetches that overlap leave the rows of the search, filter and page on the
\* screen: answers come in the order of the fetches, and the last one that an
\* effect made was of the query as it stands.
THEOREM SettledShows == Spec => []SettledShowsQuery
  <1>1. Inv => SettledShowsQuery
    <2>1. calls = <<>> => Effects = {}
      BY DEF Effects, Numbers
    <2> QED BY <2>1 DEF Inv, QueryInv, SettledShowsQuery, Settled
  <1> QED BY <1>1, InvHolds, PTL

\* Once all is settled the rows include what the user was told to have
\* changed: the handler of a change that succeeded fetches again, and what is
\* fetched before is not the last answer.
THEOREM OwnChangesAreSeen == Spec => []OwnChangeIsSeen
  <1>1. Inv => OwnChangeIsSeen
    <2>1. calls = <<>> => Numbers = {}
      BY DEF Numbers
    <2> QED BY <2>1 DEF Inv, Types, OwnInv, OwnChangeIsSeen, Settled, AnswerIs
  <1> QED BY <1>1, InvHolds, PTL

\* A screen beyond the last page is explained: the buttons offer only pages of
\* the answer on the screen, so that the page was chosen among rows of another
\* search or filter, or of another version of the database.
THEOREM PastEndIsExplained == Spec => []PastEndExplained
  <1>1. Inv => PastEndExplained
    <2> SUFFICES ASSUME Inv, shown.query = query, query.page > 1, query.page > shown.total,
                        chosen.counted = shown.counted,
                        chosen.query.search = query.search, chosen.query.filter = query.filter
                 PROVE  FALSE
      BY Zenon DEF PastEndExplained
    <2>1. /\ QueryIs(query) /\ AnswerIs(shown) /\ AnswerIs(chosen)
          /\ (query.page = 1 \/ query.page <= chosen.total)
      BY DEF Inv, Types, PageInv
    <2>2. shown.total \in Nat /\ chosen.total \in Nat /\ query.page \in Nat
      BY <2>1, TotalIsNat DEF QueryIs
    <2>3. chosen.total = shown.total
      BY <2>1 DEF AnswerIs, PagesOf
    <2> QED BY <2>1, <2>2, <2>3
  <1> QED BY <1>1, InvHolds, PTL
-----------------------------------------------------------------------------
(* Who is logged in: Session, of the browser that shows these lists.       *)

\* A call can be answered.  Only the first of a tab is.
CallIs(c) ==
  /\ "pc" \in DOMAIN c /\ (c.kind = "session" => "session" \in DOMAIN c)
  /\ c.kind = "load" => "rows" \in DOMAIN c
QueueIs(cs) ==
  IsSeq(cs) /\ \A i \in 1..Len(cs) : CallIs(cs[i]) /\ (i # 1 => cs[i].pc = "waiting")
TabFields == {"page", "who", "users", "loading", "loaded", "changing", "calls"}
TabIs(x) == x = [n \in TabFields |-> x[n]] /\ QueueIs(x.calls)

TabTypes ==
  /\ tabs = [t \in Tabs |-> tabs[t]] /\ \A t \in Tabs : TabIs(tabs[t])
  /\ role = [a \in Accounts |-> role[a]] /\ writer = [a \in Accounts |-> writer[a]]

FirstIs(cs, kind) == cs # <<>> /\ cs[1].kind = kind /\ cs[1].pc = "answered"
WillLoad(cs) == \E i \in 1..Len(cs) : cs[i].kind = "load" /\ cs[i].pc = "waiting"

\* The rows of tab x show that a has role r, or will: a load is to be served, or
\* to be asked for when a change is heard of, or its rows are on the way.
Shows(x, a, r) ==
  \/ WillLoad(x.calls)
  \/ FirstIs(x.calls, "change") /\ x.calls[1].live
  \/ FirstIs(x.calls, "load") /\ x.calls[1].rows[a] = r
  \/ ~FirstIs(x.calls, "load") /\ (~x.loaded \/ x.users[a] = r)

TableShows(t) == \A a \in Accounts : writer[a] = t => Shows(tabs[t], a, role[a])

\* Tab x shows, or is about to be told, a session of another account than c's.
OfOther(session, c) ==
  session \notin {Unread, Nobody} /\ c # Nobody /\ session.account # c.account
Foreign(x, c) ==
  \/ OfOther(x.who, c)
  \/ FirstIs(x.calls, "session") /\ OfOther(x.calls[1].session, c)

OfAccount(t) == Foreign(tabs[t], cookie) => t \in dated

BrowserInv == TabTypes /\ \A t \in Tabs : TableShows(t) /\ OfAccount(t)

-----------------------------------------------------------------------------
(* The queue of a tab: a call is added, the first is served, or ends.      *)

\* From the calls s to the calls d: what will be loaded, will be loaded.
Follows(s, d) ==
  /\ WillLoad(s) => WillLoad(d)
  /\ FirstIs(s, "change") /\ s[1].live =>
       WillLoad(d) \/ (FirstIs(d, "change") /\ d[1].live)
  /\ FirstIs(s, "load") => FirstIs(d, "load") /\ d[1] = s[1]
  /\ FirstIs(d, "load") => FirstIs(s, "load")

\* The page is not told of another session.
NotTold(s, d) == FirstIs(d, "session") => FirstIs(s, "session") /\ d[1] = s[1]

LEMMA CallAdded ==
  ASSUME NEW s, QueueIs(s), NEW e, CallIs(e), e.pc = "waiting", NEW d, d = Append(s, e)
  PROVE  /\ QueueIs(d) /\ Follows(s, d) /\ NotTold(s, d)
         /\ WillLoad(s) \/ e.kind = "load" => WillLoad(d)
         /\ \A kind : FirstIs(d, kind) => FirstIs(s, kind)
  <1>1. Appended(s, e, d) /\ IsSeq(s)
    BY SeqAppend DEF QueueIs
  <1>2. /\ IsSeq(d) /\ Len(s) \in Nat /\ Len(d) = Len(s) + 1 /\ d[Len(s) + 1] = e
        /\ \A i \in 1..Len(s) : d[i] = s[i]
    BY <1>1 DEF Appended
  <1>3. d # <<>> /\ (s # <<>> => 1 \in 1..Len(s)) /\ (s = <<>> => d[1] = e)
    <2>1. s # <<>> => Len(s) \in Nat \ {0}
      BY <1>1, SeqHead
    <2>2. s = <<>> => Len(s) = 0
      OBVIOUS
    <2>3. d = <<>> => Len(d) = 0
      OBVIOUS
    <2> QED BY <1>2, <2>1, <2>2, <2>3
  <1>4. s # <<>> => d[1] = s[1]
    BY <1>2, <1>3
  <1>5. ASSUME NEW i \in 1..Len(d) PROVE CallIs(d[i]) /\ (i # 1 => d[i].pc = "waiting")
    <2>1. CASE i \in 1..Len(s)
      BY <1>2, <2>1 DEF QueueIs
    <2>2. CASE i = Len(s) + 1
      BY <1>2, <2>2
    <2> QED BY <1>2, <2>1, <2>2
  <1>6. WillLoad(s) \/ e.kind = "load" => WillLoad(d)
    <2>1. 1..Len(s) \subseteq 1..Len(d) /\ Len(s) + 1 \in 1..Len(d)
      BY <1>2
    <2> QED BY <1>2, <2>1 DEF WillLoad
  <1>7. \A kind : FirstIs(d, kind) <=> FirstIs(s, kind)
    BY <1>3, <1>4 DEF FirstIs
  <1>8. \A kind : FirstIs(s, kind) => d[1] = s[1]
    BY <1>4 DEF FirstIs
  <1> QED BY <1>2, <1>5, <1>6, <1>7, <1>8 DEF QueueIs, Follows, NotTold

LEMMA CallServed ==
  ASSUME NEW s, QueueIs(s), s # <<>>, NEW e, CallIs(e), NEW d, d = [s EXCEPT ![1] = e]
  PROVE  /\ QueueIs(d) /\ d # <<>> /\ d[1] = e
         /\ s[1].kind # "load" /\ s[1].pc = "waiting" /\ e.kind = s[1].kind => Follows(s, d)
  <1>1. 1 \in 1..Len(s) /\ Len(s) \in Nat \ {0}
    BY SeqHead DEF QueueIs
  <1>2. WrittenAt(s, 1, e, d)
    BY <1>1, SeqWritten DEF QueueIs
  <1>3. IsSeq(d) /\ Len(d) = Len(s) /\ d[1] = e /\ \A i \in 1..Len(s) : i # 1 => d[i] = s[i]
    BY <1>2 DEF WrittenAt
  <1>4. d # <<>>
    BY <1>1, <1>3
  <1>5. ASSUME s[1].kind # "load", s[1].pc = "waiting", e.kind = s[1].kind
        PROVE  Follows(s, d)
    <2>1. WillLoad(s) => WillLoad(d)
      BY <1>3, <1>5 DEF WillLoad
    <2> QED BY <1>3, <1>5, <2>1 DEF Follows, FirstIs
  <1> QED BY <1>3, <1>4, <1>5 DEF QueueIs

LEMMA CallEnds ==
  ASSUME NEW s, QueueIs(s), s # <<>>, NEW d, d = Tail(s)
  PROVE  /\ QueueIs(d) /\ \A kind : ~FirstIs(d, kind)
         /\ WillLoad(s) /\ ~(s[1].kind = "load" /\ s[1].pc = "waiting") => WillLoad(d)
  <1>1. Dropped(s, d) /\ IsSeq(s)
    BY SeqTail DEF QueueIs
  <1>2. /\ IsSeq(d) /\ Len(s) \in Nat \ {0} /\ Len(d) = Len(s) - 1
        /\ \A j \in 1..Len(s) - 1 : d[j] = s[j + 1]
    BY <1>1 DEF Dropped
  <1>3. ASSUME NEW i \in 1..Len(s), i # 1 PROVE i - 1 \in 1..Len(d) /\ d[i - 1] = s[i]
    <2>1. i - 1 \in 1..Len(s) - 1 /\ (i - 1) + 1 = i
      BY <1>2, <1>3
    <2> QED BY <1>2, <2>1
  <1>4. ASSUME NEW i \in 1..Len(d) PROVE CallIs(d[i]) /\ d[i].pc = "waiting"
    <2>1. i + 1 \in 1..Len(s) /\ i + 1 # 1 /\ d[i] = s[i + 1]
      BY <1>2
    <2> QED BY <2>1 DEF QueueIs
  <1>5. ASSUME NEW kind PROVE ~FirstIs(d, kind)
    <2>1. d # <<>> => 1 \in 1..Len(d)
      BY <1>2, SeqHead
    <2> QED BY <1>4, <2>1 DEF FirstIs
  <1>6. WillLoad(s) /\ ~(s[1].kind = "load" /\ s[1].pc = "waiting") => WillLoad(d)
    BY <1>3 DEF WillLoad
  <1> QED BY <1>2, <1>4, <1>5, <1>6 DEF QueueIs

LEMMA InOrderIs ==
  ASSUME NEW S \in SUBSET Nat, IsFiniteSet(S)
  PROVE  Increasing(S, InOrder(S))
  <1>1. PICK f : Increasing(S, f)
    BY OrderExists
  <1>2. f \in [1..Cardinality(S) -> S] /\ Ascends(f)
    BY <1>1 DEF Increasing, Ascends
  <1>3. InOrder(S) \in [1..Cardinality(S) -> S] /\ Ascends(InOrder(S))
    BY <1>2 DEF InOrder
  <1> QED BY <1>3 DEF Increasing, Ascends

\* What a page leaves behind is a queue too, and nobody is told of a session.
LEMMA LeftIs ==
  ASSUME NEW s, QueueIs(s)
  PROVE  /\ IsSeq(Left(s))
         /\ \A i \in 1..Len(Left(s)) :
              /\ CallIs(Left(s)[i]) /\ (i # 1 => Left(s)[i].pc = "waiting")
              /\ Left(s)[i].kind # "session"
  <1> DEFINE K == {i \in DOMAIN s : s[i].kind \notin {"session", "load"}}
             n == Cardinality(K)
             order == InOrder(K)
             Row(i) == LeaveCall(s[order[i]])
  <1>1. DOMAIN s = 1..Len(s) /\ Len(s) \in Nat
    BY SeqLen DEF QueueIs
  <1>2. K \in SUBSET Nat /\ IsFiniteSet(K) /\ K \in SUBSET (1..Len(s))
    <2>1. K \in SUBSET (1..Len(s))
      BY <1>1
    <2>2. IsFiniteSet(1..Len(s))
      BY <1>1, FS_Interval
    <2> HIDE DEF K
    <2>3. IsFiniteSet(K)
      BY <2>1, <2>2, FS_Subset
    <2>4. K \in SUBSET Nat
      BY <1>1, <2>1
    <2> QED BY <2>1, <2>3, <2>4
  <1>k. \A i \in K : s[i].kind \notin {"session", "load"}
    OBVIOUS
  <1>5. Left(s) = [i \in DOMAIN order |-> Row(i)]
    BY DEF Left
  <1> HIDE DEF K
  <1>3. n \in Nat
    BY <1>2, FS_CardinalityType
  <1>4. Increasing(K, order)
    BY <1>2, InOrderIs
  <1> HIDE DEF order
  <1>6. order \in [1..n -> K] /\ \A i, j \in 1..n : i < j => order[i] < order[j]
    BY <1>4 DEF Increasing
  <1> DEFINE d == [i \in 1..n |-> Row(i)]
  <1>7. Left(s) = d /\ IsSeq(d) /\ Len(d) = n /\ \A i \in 1..n : d[i] = Row(i)
    <2>1. d \in Seq({Row(i) : i \in 1..n})
      <3> HIDE DEF n, Row
      <3> QED BY <1>3
    <2>2. Len(d) = n
      <3> HIDE DEF n, Row
      <3> QED BY <1>3
    <2>3. Left(s) = d
      <3> HIDE DEF n, Row
      <3> QED BY <1>5, <1>6
    <2> QED BY <2>1, <2>2, <2>3 DEF IsSeq
  <1>8. ASSUME NEW i \in 1..n
        PROVE  /\ CallIs(Row(i)) /\ (i # 1 => Row(i).pc = "waiting")
               /\ Row(i).kind # "session"
    <2> DEFINE c == s[order[i]]
    <2>1. order[i] \in K /\ order[i] \in 1..Len(s) /\ c.kind # "session" /\ CallIs(c)
      BY <1>2, <1>6, <1>k DEF QueueIs
    <2>2. i # 1 => c.pc = "waiting"
      <3>1. i # 1 => order[i] # 1
        <4> SUFFICES ASSUME i # 1 PROVE order[i] # 1
          OBVIOUS
        <4> HIDE DEF n
        <4>1. 1 \in 1..n /\ 1 < i
          BY <1>3
        <4>2. order[1] < order[i] /\ order[1] \in 1..Len(s)
          BY <1>2, <1>6, <4>1
        <4> QED BY <1>1, <4>2
      <3> QED BY <2>1, <3>1 DEF QueueIs
    <2> HIDE DEF c
    <2>3. LET l == [c EXCEPT !.live = FALSE] IN
          l.kind = c.kind /\ l.pc = c.pc /\ (CallIs(c) => CallIs(l))
      BY DEF CallIs
    <2>4. Row(i) = LeaveCall(c)
      BY DEF c
    <2>5. Row(i) \in {c, [c EXCEPT !.live = FALSE]}
      BY <2>4, Zenon DEF LeaveCall
    <2> HIDE DEF Row
    <2> QED BY <2>1, <2>2, <2>3, <2>5
  <1> HIDE DEF d, Row
  <1> QED BY <1>7, <1>8

-----------------------------------------------------------------------------
(* The invariant, and a step of tab t that leaves it as x.                 *)

LEMMA BlankIs ==
  ASSUME NEW page
  PROVE  /\ TabIs(Blank(page)) /\ Blank(page).who = Unread
         /\ ~FirstIs(Blank(page).calls, "session")
  <1>1. PICK d : d = <<Ask>>
    OBVIOUS
  <1>2. QueueIs(d) /\ ~FirstIs(d, "session")
    <2>1. IsSeq(d) /\ Len(d) = 1 /\ d[1] = Ask
      <3> HIDE DEF Ask
      <3>1. d \in Seq({Ask}) /\ Len(d) = 1 /\ d[1] = Ask
        BY <1>1
      <3> QED BY <3>1 DEF IsSeq
    <2>2. Ask.pc = "waiting" /\ CallIs(Ask)
      BY DEF Ask, CallIs
    <2> QED BY <2>1, <2>2 DEF QueueIs, FirstIs
  <1>3. Blank(page).calls = <<>> \/ Blank(page).calls = <<Ask>>
    BY DEF Blank
  <1>4. /\ Blank(page) = [n \in TabFields |-> Blank(page)[n]] /\ Blank(page).who = Unread
    BY DEF Blank, TabFields
  <1>5. QueueIs(<<>>) /\ ~FirstIs(<<>>, "session")
    BY DEF IsSeq, QueueIs, FirstIs
  <1> QED BY <1>1, <1>2, <1>3, <1>4, <1>5 DEF TabIs

LEMMA BrowserInit == SessionInit => BrowserInv
  <1> SUFFICES ASSUME SessionInit PROVE BrowserInv
    OBVIOUS
  <1>1. /\ tabs = [t \in Tabs |-> Blank("login")] /\ role = InitRole
        /\ writer = [a \in Accounts |-> Nobody]
    BY DEF SessionInit
  <1>2. TabTypes
    BY <1>1, BlankIs, SessionAssumption DEF TabTypes
  <1>3. ASSUME NEW t \in Tabs PROVE TableShows(t) /\ OfAccount(t)
    BY <1>1, BlankIs, SessionAssumption DEF TableShows, OfAccount, Foreign, OfOther
  <1> QED BY <1>2, <1>3 DEF BrowserInv

\* Whoever changes a role is written down, or nobody is.
Changed(a, r, w) ==
  role' = [role EXCEPT ![a] = r] /\ writer' = [writer EXCEPT ![a] = w]

\* Tab t alone may have changed a role.
RolesBy(t) ==
  /\ role' = [a \in Accounts |-> role'[a]] /\ writer' = [a \in Accounts |-> writer'[a]]
  /\ \A u \in Tabs \ {t}, a \in Accounts :
       writer'[a] = u => writer[a] = u /\ role'[a] = role[a]

LEMMA RolesChange ==
  ASSUME TabTypes, NEW t \in Tabs,
         \/ UNCHANGED <<role, writer>>
         \/ \E a, r : Changed(a, r, t) \/ Changed(a, r, Nobody)
  PROVE  /\ RolesBy(t)
         /\ UNCHANGED <<role, writer>> \/ (\E a, r : Changed(a, r, Nobody)) =>
              \A a \in Accounts : writer'[a] = t => writer[a] = t /\ role'[a] = role[a]
  BY SessionAssumption DEF TabTypes, RolesBy, Changed

LEMMA TabStep ==
  ASSUME BrowserInv, NEW t \in Tabs, NEW x, TabIs(x), tabs' = [tabs EXCEPT ![t] = x],
         RolesBy(t), \A a \in Accounts : writer'[a] = t => Shows(x, a, role'[a]),
         \A u \in Tabs : Foreign(tabs'[u], cookie') => u \in dated'
  PROVE  BrowserInv'
  <1>1. tabs'[t] = x /\ \A u \in Tabs \ {t} : tabs'[u] = tabs[u]
    BY DEF BrowserInv, TabTypes
  <1>2. TabTypes'
    <2>1. tabs' = [u \in Tabs |-> tabs'[u]]
      BY DEF BrowserInv, TabTypes
    <2>2. ASSUME NEW u \in Tabs PROVE TabIs(tabs'[u])
      BY <1>1 DEF BrowserInv, TabTypes
    <2> QED BY <2>1, <2>2 DEF TabTypes, RolesBy
  <1>3. ASSUME NEW u \in Tabs PROVE TableShows(u)'
    <2>1. CASE u = t
      BY <1>1, <2>1 DEF TableShows
    <2>2. CASE u # t
      BY <1>1, <2>2 DEF BrowserInv, TableShows, RolesBy
    <2> QED BY <2>1, <2>2
  <1>4. ASSUME NEW u \in Tabs PROVE OfAccount(u)'
    BY DEF OfAccount
  <1> QED BY <1>2, <1>3, <1>4 DEF BrowserInv

LEMMA SameAccounts ==
  ASSUME BrowserInv, NEW t \in Tabs, NEW x, tabs' = [tabs EXCEPT ![t] = x],
         cookie' \in {cookie, Nobody}, dated' = dated,
         Foreign(x, cookie) => Foreign(tabs[t], cookie)
  PROVE  \A u \in Tabs : Foreign(tabs'[u], cookie') => u \in dated'
  <1> SUFFICES ASSUME NEW u \in Tabs, Foreign(tabs'[u], cookie') PROVE u \in dated'
    OBVIOUS
  <1>1. cookie' = cookie
    BY DEF Foreign, OfOther
  <1>2. Foreign(tabs[u], cookie)
    BY <1>1 DEF BrowserInv, TabTypes
  <1> QED BY <1>2 DEF BrowserInv, OfAccount

\* The tab shows its rows as before, and is not told of another account.
LEMMA QuietStep ==
  ASSUME BrowserInv, NEW t \in Tabs, NEW x, TabIs(x), tabs' = [tabs EXCEPT ![t] = x],
         x.users = tabs[t].users, x.loaded = tabs[t].loaded,
         Follows(tabs[t].calls, x.calls), Foreign(x, cookie) => Foreign(tabs[t], cookie),
         UNCHANGED <<role, writer>> \/ \E a, r : Changed(a, r, Nobody),
         cookie' \in {cookie, Nobody}, dated' = dated
  PROVE  BrowserInv'
  <1>1. /\ RolesBy(t)
        /\ \A a \in Accounts : writer'[a] = t => writer[a] = t /\ role'[a] = role[a]
    BY RolesChange DEF BrowserInv
  <1>2. \A u \in Tabs : Foreign(tabs'[u], cookie') => u \in dated'
    BY SameAccounts
  <1>3. ASSUME NEW a \in Accounts, writer'[a] = t PROVE Shows(x, a, role'[a])
    <2>1. role'[a] = role[a] /\ Shows(tabs[t], a, role[a])
      BY <1>1, <1>3 DEF BrowserInv, TableShows
    <2> QED BY <2>1 DEF Shows, Follows
  <1> QED BY <1>1, <1>2, <1>3, TabStep

-----------------------------------------------------------------------------
(* The steps of a tab.                                                     *)

\* The page is another, or the same one mounted anew.
LEMMA RenewKeeps ==
  ASSUME BrowserInv, NEW t \in Tabs, NEW x, TabIs(x), Renew(t, x), x.who = Unread,
         ~FirstIs(x.calls, "session")
  PROVE  BrowserInv'
  <1>1. /\ tabs' = [tabs EXCEPT ![t] = x] /\ UNCHANGED <<role, cookie>>
        /\ writer' = [a \in Accounts |-> IF writer[a] = t THEN Nobody ELSE writer[a]]
        /\ dated' = dated \ {t}
    BY DEF Renew
  <1>2. RolesBy(t) /\ \A a \in Accounts : writer'[a] # t
    BY <1>1, SessionAssumption DEF BrowserInv, TabTypes, RolesBy
  <1>3. ASSUME NEW u \in Tabs, Foreign(tabs'[u], cookie') PROVE u \in dated'
    <2>1. u # t
      BY <1>1, <1>3 DEF BrowserInv, TabTypes, Foreign, OfOther
    <2>2. Foreign(tabs[u], cookie)
      BY <1>1, <1>3, <2>1 DEF BrowserInv, TabTypes
    <2> QED BY <1>1, <2>1, <2>2 DEF BrowserInv, OfAccount
  <1> QED BY <1>1, <1>2, <1>3, TabStep

LEMMA MountedIs ==
  ASSUME NEW x, TabIs(x), NEW page
  PROVE  /\ TabIs(Mounted(x, page)) /\ Mounted(x, page).who = Unread
         /\ ~FirstIs(Mounted(x, page).calls, "session")
  <1> DEFINE l == Left(x.calls)
             b == Blank(page).calls
  <1>1. /\ IsSeq(l)
        /\ \A i \in 1..Len(l) : /\ CallIs(l[i]) /\ (i # 1 => l[i].pc = "waiting")
                                /\ l[i].kind # "session"
    BY LeftIs DEF TabIs
  <1>2. /\ TabIs(Blank(page)) /\ Blank(page).who = Unread
        /\ IsSeq(b) /\ \A i \in 1..Len(b) : CallIs(b[i]) /\ b[i].pc = "waiting"
    <2>1. b = <<>> \/ b = <<Ask>>
      BY DEF Blank
    <2>2. /\ Len(<<Ask>>) = 1 /\ <<Ask>>[1] = Ask /\ Ask.pc = "waiting"
          /\ Len(<<>>) = 0 /\ CallIs(Ask)
      BY DEF Ask, CallIs
    <2>3. \A i \in 1..Len(b) : CallIs(b[i]) /\ b[i].pc = "waiting"
      BY <2>1, <2>2
    <2> QED BY <2>3, BlankIs DEF TabIs, QueueIs
  <1>3. Mounted(x, page) = [Blank(page) EXCEPT !.calls = l \o b]
    BY DEF Mounted
  <1> HIDE DEF l, b
  <1>4. PICK d : d = l \o b
    OBVIOUS
  <1>5. /\ IsSeq(d) /\ Len(l) \in Nat /\ Len(b) \in Nat /\ Len(d) = Len(l) + Len(b)
        /\ \A i \in 1..Len(l) + Len(b) : d[i] = IF i <= Len(l) THEN l[i] ELSE b[i - Len(l)]
    <2>1. PICK S, T : l \in Seq(S) /\ b \in Seq(T)
      BY <1>1, <1>2 DEF IsSeq
    <2>2. l \in Seq(S \cup T) /\ b \in Seq(S \cup T)
      BY <2>1
    <2> QED BY <1>4, <2>2, ConcatProperties, LenProperties DEF IsSeq
  <1>6. ASSUME NEW i \in 1..Len(d)
        PROVE  /\ CallIs(d[i]) /\ (i # 1 => d[i].pc = "waiting")
               /\ d[i].kind # "session" \/ d[i].pc = "waiting"
    <2>1. CASE i <= Len(l)
      BY <1>1, <1>5, <2>1
    <2>2. CASE ~(i <= Len(l))
      <3>1. i - Len(l) \in 1..Len(b) /\ d[i] = b[i - Len(l)]
        BY <1>5, <2>2
      <3> QED BY <1>2, <3>1
    <2> QED BY <2>1, <2>2
  <1>7. QueueIs(d)
    BY <1>5, <1>6 DEF QueueIs
  <1>8. ~FirstIs(d, "session")
    <2>1. d # <<>> => 1 \in 1..Len(d)
      BY <1>5, SeqHead
    <2> QED BY <1>6, <2>1 DEF FirstIs
  <1> DEFINE y == [Blank(page) EXCEPT !.calls = d]
  <1>9. TabIs(y) /\ y.who = Unread /\ y.calls = d
    <2> DEFINE z == Blank(page)
    <2>1. z = [n \in TabFields |-> z[n]] /\ z.who = Unread
      BY <1>2 DEF TabIs
    <2> HIDE DEF z
    <2>2. LET w == [z EXCEPT !.calls = d] IN
          w = [n \in TabFields |-> w[n]] /\ w.who = Unread /\ w.calls = d
      BY <2>1 DEF TabFields
    <2> QED BY <1>7, <2>2 DEF TabIs, z
  <1>0. Mounted(x, page) = y
    BY <1>3, <1>4
  <1> HIDE DEF y
  <1> QED BY <1>8, <1>9, <1>0

LEMMA SurfKeeps ==
  ASSUME BrowserInv, NEW t \in Tabs, Surf(t)
  PROVE  BrowserInv'
  <1>1. PICK page \in Routes : Open(t, page) \/ Arrive(t, page)
    BY DEF Surf
  <1>2. CASE Open(t, page)
    BY <1>2, BlankIs, RenewKeeps DEF Open
  <1>3. CASE Arrive(t, page)
    <2>1. TabIs(tabs[t])
      BY DEF BrowserInv, TabTypes
    <2> QED BY <1>3, <2>1, MountedIs, RenewKeeps DEF Arrive
  <1> QED BY <1>1, <1>2, <1>3

LEMMA FirstOf ==
  ASSUME BrowserInv, NEW t \in Tabs
  PROVE  /\ TabIs(tabs[t]) /\ QueueIs(tabs[t].calls)
         /\ tabs[t].calls # <<>> => First(t) = tabs[t].calls[1]
  <1>1. TabIs(tabs[t])
    BY DEF BrowserInv, TabTypes
  <1> QED BY <1>1, SeqHead DEF TabIs, QueueIs, First, Calls

\* A call is added.
LEMMA AskKeeps ==
  ASSUME BrowserInv, NEW t \in Tabs, NEW x, x = [n \in TabFields |-> x[n]],
         NEW e, CallIs(e), e.pc = "waiting", x.calls = Append(tabs[t].calls, e),
         x.users = tabs[t].users, x.loaded = tabs[t].loaded, x.who = tabs[t].who,
         tabs' = [tabs EXCEPT ![t] = x], UNCHANGED <<role, cookie, writer, dated>>
  PROVE  BrowserInv'
  <1>1. PICK s, d : s = tabs[t].calls /\ d = x.calls
    OBVIOUS
  <1>2. QueueIs(s) /\ d = Append(s, e)
    BY <1>1, FirstOf
  <1>3. QueueIs(d) /\ Follows(s, d) /\ NotTold(s, d)
    BY <1>2, CallAdded, Zenon
  <1>4. Foreign(x, cookie) => Foreign(tabs[t], cookie)
    BY <1>1, <1>3 DEF Foreign, NotTold
  <1>5. TabIs(x)
    BY <1>1, <1>3 DEF TabIs
  <1> QED BY <1>1, <1>3, <1>4, <1>5, QuietStep

LEMMA ClickKeeps ==
  ASSUME BrowserInv, NEW t \in Tabs, Click(t)
  PROVE  BrowserInv'
  <1>t. tabs[t] = [n \in TabFields |-> tabs[t][n]]
    BY FirstOf DEF TabIs
  <1>1. ASSUME NEW a \in Accounts, Submit(t, a) PROVE BrowserInv'
    <2> DEFINE e == SignIn(a)
               x == [tabs[t] EXCEPT !.calls = Append(tabs[t].calls, e)]
    <2>1. e.pc = "waiting" /\ CallIs(e)
      BY DEF SignIn, CallIs
    <2>2. tabs' = [tabs EXCEPT ![t] = x] /\ UNCHANGED <<role, cookie, writer, dated>>
      BY <1>1 DEF Submit
    <2> HIDE DEF e
    <2>3. /\ x = [n \in TabFields |-> x[n]] /\ x.calls = Append(tabs[t].calls, e)
          /\ x.users = tabs[t].users /\ x.loaded = tabs[t].loaded /\ x.who = tabs[t].who
      BY <1>t DEF TabFields
    <2> HIDE DEF x
    <2> QED BY <2>1, <2>2, <2>3, AskKeeps
  <1>2. CASE Logout(t)
    <2> DEFINE e == SignOut
               x == [tabs[t] EXCEPT !.calls = Append(tabs[t].calls, e)]
    <2>1. e.pc = "waiting" /\ CallIs(e)
      BY DEF SignOut, CallIs
    <2>2. tabs' = [tabs EXCEPT ![t] = x] /\ UNCHANGED <<role, cookie, writer, dated>>
      BY <1>2 DEF Logout, sessionHistory
    <2> HIDE DEF e
    <2>3. /\ x = [n \in TabFields |-> x[n]] /\ x.calls = Append(tabs[t].calls, e)
          /\ x.users = tabs[t].users /\ x.loaded = tabs[t].loaded /\ x.who = tabs[t].who
      BY <1>t DEF TabFields
    <2> HIDE DEF x
    <2> QED BY <2>1, <2>2, <2>3, AskKeeps
  <1>3. ASSUME NEW a \in Accounts, NEW r \in Roles, Pick(t, a, r) PROVE BrowserInv'
    <2> DEFINE e == ChangeOf(a, r)
               x == [tabs[t] EXCEPT !.changing = a, !.calls = Append(tabs[t].calls, e)]
    <2>1. e.pc = "waiting" /\ CallIs(e)
      BY DEF ChangeOf, CallIs
    <2>2. tabs' = [tabs EXCEPT ![t] = x] /\ UNCHANGED <<role, cookie, writer, dated>>
      BY <1>3 DEF Pick
    <2> HIDE DEF e
    <2>3. /\ x = [n \in TabFields |-> x[n]] /\ x.calls = Append(tabs[t].calls, e)
          /\ x.users = tabs[t].users /\ x.loaded = tabs[t].loaded /\ x.who = tabs[t].who
      BY <1>t DEF TabFields
    <2> HIDE DEF x
    <2> QED BY <2>1, <2>2, <2>3, AskKeeps
  <1> QED BY <1>1, <1>2, <1>3 DEF Click

\* The first call is served.
WithFirst(x, e) == [x EXCEPT !.calls = [x.calls EXCEPT ![1] = e]]

LEMMA WithFirstIs ==
  ASSUME NEW x, TabIs(x), x.calls # <<>>, NEW e, CallIs(e)
  PROVE  /\ TabIs(WithFirst(x, e)) /\ WithFirst(x, e).users = x.users
         /\ WithFirst(x, e).loaded = x.loaded /\ WithFirst(x, e).who = x.who
         /\ WithFirst(x, e).calls # <<>> /\ WithFirst(x, e).calls[1] = e
         /\ x.calls[1].kind # "load" /\ x.calls[1].pc = "waiting" /\ e.kind = x.calls[1].kind =>
              Follows(x.calls, WithFirst(x, e).calls)
  <1>1. PICK s, d : s = x.calls /\ d = [s EXCEPT ![1] = e]
    OBVIOUS
  <1>2. QueueIs(s) /\ s # <<>>
    BY <1>1 DEF TabIs
  <1>3. /\ QueueIs(d) /\ d # <<>> /\ d[1] = e
        /\ s[1].kind # "load" /\ s[1].pc = "waiting" /\ e.kind = s[1].kind => Follows(s, d)
    BY <1>1, <1>2, CallServed
  <1> DEFINE y == [x EXCEPT !.calls = d]
  <1>4. x = [n \in TabFields |-> x[n]] /\ WithFirst(x, e) = y
    BY <1>1 DEF TabIs, WithFirst
  <1>5. /\ y = [n \in TabFields |-> y[n]] /\ y.users = x.users /\ y.loaded = x.loaded
        /\ y.who = x.who /\ y.calls = d
    BY <1>4 DEF TabFields
  <1> HIDE DEF y
  <1>6. TabIs(y)
    BY <1>3, <1>5 DEF TabIs
  <1> QED BY <1>1, <1>3, <1>4, <1>5, <1>6

LEMMA TabIsServed ==
  ASSUME BrowserInv, NEW t \in Tabs, NEW kind, NEW pc, Turn(t, kind, pc), NEW e, CallIs(e)
  PROVE  LET x == WithFirst(tabs[t], e) IN
         /\ TabIs(x) /\ x.users = tabs[t].users /\ x.loaded = tabs[t].loaded
         /\ x.who = tabs[t].who /\ x.calls # <<>> /\ x.calls[1] = e
         /\ kind # "load" /\ pc = "waiting" /\ e.kind = kind => Follows(tabs[t].calls, x.calls)
  <1>1. /\ TabIs(tabs[t]) /\ tabs[t].calls # <<>> /\ tabs[t].calls[1].kind = kind
        /\ tabs[t].calls[1].pc = pc
    BY FirstOf DEF Turn, Calls
  <1> QED BY <1>1, WithFirstIs

LEMMA ServedQuietly ==
  ASSUME BrowserInv, NEW t \in Tabs, NEW kind, kind # "load", Turn(t, kind, "waiting"),
         NEW e, CallIs(e), e.kind = kind, tabs' = [tabs EXCEPT ![t].calls[1] = e],
         kind = "session" => ~OfOther(e.session, cookie),
         UNCHANGED <<role, writer>> \/ \E a, r : Changed(a, r, Nobody),
         UNCHANGED <<cookie, dated>>
  PROVE  BrowserInv'
  <1> DEFINE x == WithFirst(tabs[t], e)
  <1>1. tabs' = [tabs EXCEPT ![t] = x]
    BY DEF WithFirst
  <1>2. /\ TabIs(x) /\ x.users = tabs[t].users /\ x.loaded = tabs[t].loaded
        /\ x.who = tabs[t].who /\ x.calls # <<>> /\ x.calls[1] = e
        /\ Follows(tabs[t].calls, x.calls)
    BY TabIsServed
  <1> HIDE DEF x
  <1>4. Foreign(x, cookie) => Foreign(tabs[t], cookie)
    BY <1>2 DEF Foreign, FirstIs
  <1> QED BY <1>1, <1>2, <1>4, QuietStep

LEMMA TabServedKeeps ==
  ASSUME BrowserInv, NEW t \in Tabs, ServeTab(t)
  PROVE  BrowserInv'
  <1> DEFINE c == First(t)
  <1>c. tabs[t].calls # <<>> => CallIs(c)
    <2>1. QueueIs(tabs[t].calls) /\ (tabs[t].calls # <<>> => c = tabs[t].calls[1])
      BY FirstOf
    <2>2. tabs[t].calls # <<>> => 1 \in 1..Len(tabs[t].calls)
      BY <2>1, SeqHead DEF QueueIs
    <2> QED BY <2>1, <2>2 DEF QueueIs
  <1>1. CASE ServeSession(t)
    <2> DEFINE e == [[c EXCEPT !.session = cookie] EXCEPT !.pc = "answered"]
    <2>1. Turn(t, "session", "waiting") /\ UNCHANGED <<role, writer, cookie, dated>>
      BY <1>1 DEF ServeSession, sessionHistory
    <2>2. tabs' = [tabs EXCEPT ![t].calls[1] = e]
      BY <1>1 DEF ServeSession, Answer
    <2>3. CallIs(c) /\ c.kind = "session"
      BY <1>c, <2>1 DEF Turn, Calls
    <2> HIDE DEF c
    <2>4. CallIs(e) /\ e.kind = "session" /\ e.session = cookie
      BY <2>3 DEF CallIs
    <2> HIDE DEF e
    <2>5. ~OfOther(e.session, cookie)
      BY <2>4 DEF OfOther
    <2> QED BY <2>1, <2>2, <2>4, <2>5, ServedQuietly
  <1>2. CASE ServeLoad(t)
    <2> DEFINE e == [[c EXCEPT !.rows = role] EXCEPT !.pc = "answered"]
    <2>1. Turn(t, "load", "waiting") /\ UNCHANGED <<role, writer, cookie, dated>>
      BY <1>2 DEF ServeLoad, sessionHistory
    <2>2. tabs' = [tabs EXCEPT ![t].calls[1] = e]
      BY <1>2 DEF ServeLoad, Answer, Rows
    <2>3. CallIs(c) /\ c.kind = "load" /\ tabs[t].calls # <<>>
      BY <1>c, <2>1 DEF Turn, Calls
    <2>c. c.pc = "waiting" /\ c = tabs[t].calls[1]
      BY <2>1, FirstOf DEF Turn, Calls
    <2> HIDE DEF c
    <2>4. CallIs(e) /\ e.kind = "load" /\ e.rows = role /\ e.pc = "answered"
      BY <2>3 DEF CallIs
    <2> HIDE DEF e
    <2> DEFINE x == WithFirst(tabs[t], e)
    <2>x. tabs' = [tabs EXCEPT ![t] = x]
      BY <2>2 DEF WithFirst
    <2>5. TabIs(x) /\ x.who = tabs[t].who /\ x.calls # <<>> /\ x.calls[1] = e
      BY <2>1, <2>4, TabIsServed
    <2> HIDE DEF x
    <2>6. \A a \in Accounts : Shows(x, a, role'[a])
      BY <2>1, <2>4, <2>5 DEF Shows, FirstIs
    <2>7. Foreign(x, cookie) => Foreign(tabs[t], cookie)
      BY <2>4, <2>5 DEF Foreign, FirstIs
    <2>8. RolesBy(t)
      BY <2>1, RolesChange DEF BrowserInv
    <2> QED BY <2>1, <2>x, <2>5, <2>6, <2>7, <2>8, SameAccounts, TabStep
  <1>3. CASE ServeRole(t)
    <2> DEFINE e == [c EXCEPT !.pc = "answered"]
    <2>1. /\ Turn(t, "change", "waiting") /\ UNCHANGED <<cookie, dated>>
          /\ Changed(c.account, c.role, IF c.live THEN t ELSE Nobody)
      BY <1>3 DEF ServeRole, SetRole, Changed
    <2>2. tabs' = [tabs EXCEPT ![t].calls[1] = e]
      BY <1>3 DEF ServeRole, Answer
    <2>3. CallIs(c) /\ c.kind = "change" /\ tabs[t].calls # <<>>
      BY <1>c, <2>1 DEF Turn, Calls
    <2> HIDE DEF c
    <2>4. CallIs(e) /\ e.kind = "change" /\ e.live = c.live /\ e.pc = "answered"
      BY <2>3 DEF CallIs
    <2> HIDE DEF e
    <2>5. CASE ~c.live
      <3>1. \E a, r : Changed(a, r, Nobody)
        BY <2>1, <2>5
      <3> QED BY <2>1, <2>2, <2>4, <3>1, ServedQuietly
    <2>6. CASE c.live
      <3> DEFINE x == WithFirst(tabs[t], e)
      <3>x. tabs' = [tabs EXCEPT ![t] = x]
        BY <2>2 DEF WithFirst
      <3>1. TabIs(x) /\ x.who = tabs[t].who /\ x.calls # <<>> /\ x.calls[1] = e
        BY <2>1, <2>4, TabIsServed
      <3> HIDE DEF x
      <3>2. \A a \in Accounts : Shows(x, a, role'[a])
        BY <2>4, <2>6, <3>1 DEF Shows, FirstIs
      <3>3. Foreign(x, cookie) => Foreign(tabs[t], cookie)
        BY <2>4, <3>1 DEF Foreign, FirstIs
      <3>4. \E a, r : Changed(a, r, t)
        BY <2>1, <2>6
      <3>5. RolesBy(t)
        BY <3>4, RolesChange DEF BrowserInv
      <3> QED BY <2>1, <3>x, <3>1, <3>2, <3>3, <3>5, SameAccounts, TabStep
    <2> QED BY <2>5, <2>6
  <1>4. CASE FailChange(t)
    <2> DEFINE e == [c EXCEPT !.pc = "failed"]
    <2>1. /\ Turn(t, "change", "waiting") /\ UNCHANGED <<cookie, dated>>
          /\ UNCHANGED <<role, writer>> \/ Changed(c.account, c.role, Nobody)
      BY <1>4 DEF FailChange, SetRole, Changed
    <2>3. CallIs(c) /\ c.kind = "change" /\ c = tabs[t].calls[1]
      BY <1>c, <2>1, FirstOf DEF Turn, Calls
    <2>2. tabs' = [tabs EXCEPT ![t].calls[1] = e]
      <3>1. tabs' = [tabs EXCEPT ![t].calls[1] = [tabs[t].calls[1] EXCEPT !.pc = "failed"]]
        BY <1>4 DEF FailChange
      <3> HIDE DEF c
      <3> QED BY <2>3, <3>1
    <2> HIDE DEF c
    <2>4. CallIs(e) /\ e.kind = "change"
      BY <2>3 DEF CallIs
    <2> HIDE DEF e
    <2> QED BY <2>1, <2>2, <2>4, ServedQuietly
  <1>5. CASE ServeLogin(t)
    <2> DEFINE v == role[c.account]
               e == [[c EXCEPT !.role = v] EXCEPT !.pc = "answered"]
    <2>1. Turn(t, "login", "waiting") /\ UNCHANGED <<role, writer, cookie, dated>>
      BY <1>5 DEF ServeLogin, sessionHistory
    <2>2. tabs' = [tabs EXCEPT ![t].calls[1] = e]
      BY <1>5 DEF ServeLogin, Answer
    <2>3. CallIs(c) /\ c.kind = "login"
      BY <1>c, <2>1 DEF Turn, Calls
    <2> HIDE DEF c, v
    <2>4. CallIs(e) /\ e.kind = "login"
      BY <2>3 DEF CallIs
    <2> HIDE DEF e
    <2> QED BY <2>1, <2>2, <2>4, ServedQuietly
  <1> QED BY <1>1, <1>2, <1>3, <1>4, <1>5 DEF ServeTab
\* The first call ends.
LEMMA HeardIs ==
  ASSUME BrowserInv, NEW t \in Tabs, NEW kind, NEW pc, Turn(t, kind, pc)
  PROVE  /\ TabIs(Heard(t)) /\ Heard(t).users = tabs[t].users
         /\ Heard(t).loaded = tabs[t].loaded /\ Heard(t).who = tabs[t].who
         /\ \A k : ~FirstIs(Heard(t).calls, k)
         /\ WillLoad(tabs[t].calls) /\ ~(kind = "load" /\ pc = "waiting") =>
              WillLoad(Heard(t).calls)
         /\ tabs[t].calls[1] = First(t) /\ First(t).kind = kind /\ First(t).pc = pc
  <1>1. PICK x, s, d : x = tabs[t] /\ s = x.calls /\ d = Tail(s)
    OBVIOUS
  <1>2. /\ TabIs(x) /\ QueueIs(s) /\ s # <<>> /\ First(t) = s[1]
        /\ First(t).kind = kind /\ First(t).pc = pc
    BY <1>1, FirstOf DEF Turn, Calls
  <1>3. /\ QueueIs(d) /\ \A k : ~FirstIs(d, k)
        /\ WillLoad(s) /\ ~(kind = "load" /\ pc = "waiting") => WillLoad(d)
    BY <1>1, <1>2, CallEnds
  <1> DEFINE y == [x EXCEPT !.calls = d]
  <1>4. Heard(t) = y
    BY <1>1 DEF Heard
  <1>5. /\ y = [n \in TabFields |-> y[n]] /\ y.users = x.users /\ y.loaded = x.loaded
        /\ y.who = x.who /\ y.calls = d
    BY <1>2 DEF TabIs, TabFields
  <1> HIDE DEF y
  <1>6. TabIs(y)
    BY <1>3, <1>5 DEF TabIs
  <1> QED BY <1>1, <1>2, <1>3, <1>4, <1>5, <1>6

LEMMA WithLoadIs ==
  ASSUME NEW x, TabIs(x)
  PROVE  /\ TabIs(WithLoad(x)) /\ WithLoad(x).users = x.users
         /\ WithLoad(x).loaded = x.loaded /\ WithLoad(x).who = x.who
         /\ WillLoad(WithLoad(x).calls)
         /\ \A k : FirstIs(WithLoad(x).calls, k) => FirstIs(x.calls, k)
  <1>1. PICK s, d : s = x.calls /\ d = Append(s, Load)
    OBVIOUS
  <1>2. QueueIs(s) /\ CallIs(Load) /\ Load.pc = "waiting" /\ Load.kind = "load"
    BY <1>1 DEF TabIs, CallIs, Load
  <1>3. QueueIs(d) /\ WillLoad(d) /\ \A k : FirstIs(d, k) => FirstIs(s, k)
    BY <1>1, <1>2, CallAdded
  <1> DEFINE y == [x EXCEPT !.loading = TRUE, !.calls = d]
  <1>4. WithLoad(x) = y
    BY <1>1 DEF WithLoad
  <1>5. /\ y = [n \in TabFields |-> y[n]] /\ y.users = x.users /\ y.loaded = x.loaded
        /\ y.who = x.who /\ y.calls = d
    BY DEF TabIs, TabFields
  <1> HIDE DEF y
  <1>6. TabIs(y)
    BY <1>3, <1>5 DEF TabIs
  <1> QED BY <1>1, <1>3, <1>4, <1>5, <1>6

\* Neither a load ends nor a login.
LEMMA EndKeeps ==
  ASSUME BrowserInv, NEW t \in Tabs, NEW kind, kind # "load", NEW pc, Turn(t, kind, pc),
         NEW y, TabIs(y), y.calls = Heard(t).calls, y.users = tabs[t].users,
         y.loaded = tabs[t].loaded, OfOther(y.who, cookie) => Foreign(tabs[t], cookie),
         NEW x, x = y \/ x = WithLoad(y),
         kind = "change" /\ pc = "answered" /\ First(t).live => x = WithLoad(y),
         tabs' = [tabs EXCEPT ![t] = x], UNCHANGED <<role, writer, dated>>,
         cookie' \in {cookie, Nobody}
  PROVE  BrowserInv'
  <1>1. /\ \A k : ~FirstIs(y.calls, k)
        /\ WillLoad(tabs[t].calls) => WillLoad(y.calls)
        /\ tabs[t].calls[1] = First(t) /\ First(t).kind = kind /\ First(t).pc = pc
    BY HeardIs
  <1>2. /\ TabIs(x) /\ x.users = y.users /\ x.loaded = y.loaded /\ x.who = y.who
        /\ WillLoad(y.calls) => WillLoad(x.calls)
        /\ x = WithLoad(y) => WillLoad(x.calls)
        /\ \A k : ~FirstIs(x.calls, k)
    BY <1>1, WithLoadIs
  <1>3. Follows(tabs[t].calls, x.calls)
    BY <1>1, <1>2 DEF Follows, FirstIs
  <1>4. Foreign(x, cookie) => Foreign(tabs[t], cookie)
    BY <1>2 DEF Foreign
  <1> QED BY <1>2, <1>3, <1>4, QuietStep

LEMMA HearKeeps ==
  ASSUME BrowserInv, NEW t \in Tabs, Hear(t)
  PROVE  BrowserInv'
  <1> DEFINE h == Heard(t)
  <1>o. OfOther(tabs[t].who, cookie) => Foreign(tabs[t], cookie)
    BY DEF Foreign
  <1>1. CASE SessionHeard(t)
    <2> DEFINE y == [h EXCEPT !.who = First(t).session]
               loads == /\ y.page = "roles" /\ First(t).session # Nobody
                        /\ First(t).session.role = "superadmin"
               x == IF loads THEN WithLoad(y) ELSE y
    <2>1. /\ Turn(t, "session", "answered") /\ tabs' = [tabs EXCEPT ![t] = x]
          /\ UNCHANGED <<role, cookie, writer, dated>>
      BY <1>1 DEF SessionHeard, sessionHistory
    <2> HIDE DEF loads
    <2>2. /\ TabIs(h) /\ h.users = tabs[t].users /\ h.loaded = tabs[t].loaded
          /\ tabs[t].calls[1] = First(t) /\ First(t).kind = "session"
          /\ First(t).pc = "answered" /\ tabs[t].calls # <<>>
      BY <2>1, HeardIs DEF Turn, Calls
    <2> HIDE DEF h
    <2>3. /\ TabIs(y) /\ y.users = h.users /\ y.loaded = h.loaded /\ y.calls = h.calls
          /\ y.who = First(t).session
      BY <2>2 DEF TabIs, TabFields
    <2> HIDE DEF y
    <2>4. OfOther(y.who, cookie) => Foreign(tabs[t], cookie)
      BY <2>2, <2>3 DEF Foreign, FirstIs
    <2>5. x = y \/ x = WithLoad(y)
      OBVIOUS
    <2>6. y.calls = Heard(t).calls
      BY <2>3 DEF h
    <2> HIDE DEF x
    <2> QED BY <2>1, <2>2, <2>3, <2>4, <2>5, <2>6, EndKeeps
  <1>2. CASE SessionFails(t)
    <2> DEFINE y == [h EXCEPT !.who = Nobody]
               x == IF tabs[t].page = "roles" THEN y ELSE h
    <2>1. /\ Turn(t, "session", "waiting") /\ tabs' = [tabs EXCEPT ![t] = x]
          /\ UNCHANGED <<role, cookie, writer, dated>>
      BY <1>2 DEF SessionFails, sessionHistory
    <2>2. TabIs(h) /\ h.users = tabs[t].users /\ h.loaded = tabs[t].loaded /\ h.who = tabs[t].who
      BY <2>1, HeardIs
    <2> HIDE DEF h
    <2>3. /\ TabIs(x) /\ x.users = h.users /\ x.loaded = h.loaded /\ x.calls = h.calls
          /\ x.who = h.who \/ x.who = Nobody
      BY <2>2 DEF TabIs, TabFields
    <2> HIDE DEF x
    <2>4. OfOther(x.who, cookie) => Foreign(tabs[t], cookie)
      BY <1>o, <2>2, <2>3 DEF OfOther
    <2>5. x.calls = Heard(t).calls
      BY <2>3 DEF h
    <2> QED BY <2>1, <2>2, <2>3, <2>4, <2>5, EndKeeps
  <1>3. CASE ChangeHeard(t)
    <2> DEFINE y == IF First(t).live THEN [h EXCEPT !.changing = Nobody] ELSE h
               x == IF First(t).live THEN WithLoad(y) ELSE y
    <2>1. /\ UNCHANGED <<role, cookie, writer, dated>>
          /\ \/ Turn(t, "change", "answered") /\ tabs' = [tabs EXCEPT ![t] = x]
             \/ Turn(t, "change", "failed") /\ tabs' = [tabs EXCEPT ![t] = y]
      BY <1>3 DEF ChangeHeard, sessionHistory
    <2>2. TabIs(h) /\ h.users = tabs[t].users /\ h.loaded = tabs[t].loaded /\ h.who = tabs[t].who
      BY <2>1, HeardIs
    <2> HIDE DEF h
    <2>3. /\ TabIs(y) /\ y.users = h.users /\ y.loaded = h.loaded /\ y.calls = h.calls
          /\ y.who = h.who
      BY <2>2 DEF TabIs, TabFields
    <2> HIDE DEF y
    <2>4. (x = y \/ x = WithLoad(y)) /\ (First(t).live => x = WithLoad(y))
      OBVIOUS
    <2>5. y.calls = Heard(t).calls
      BY <2>3 DEF h
    <2> HIDE DEF x
    <2>6. OfOther(y.who, cookie) => Foreign(tabs[t], cookie)
      BY <1>o, <2>2, <2>3
    <2>u. /\ UNCHANGED <<role, writer, dated>> /\ cookie' \in {cookie, Nobody}
          /\ y.users = tabs[t].users /\ y.loaded = tabs[t].loaded
      BY <2>1, <2>2, <2>3
    <2>7. CASE Turn(t, "change", "answered") /\ tabs' = [tabs EXCEPT ![t] = x]
      BY <2>u, <2>3, <2>4, <2>5, <2>6, <2>7, EndKeeps
    <2>8. CASE Turn(t, "change", "failed") /\ tabs' = [tabs EXCEPT ![t] = y]
      <3>1. PICK p : p = "failed"
        OBVIOUS
      <3>2. Turn(t, "change", p) /\ p # "answered"
        BY <2>8, <3>1
      <3> QED BY <2>u, <2>3, <2>5, <2>6, <2>8, <3>2, EndKeeps
    <2> QED BY <2>1, <2>7, <2>8
  <1>4. CASE LoginFails(t) \/ LogoutHeard(t)
    <2>1. /\ Turn(t, "login", "waiting") \/ Turn(t, "logout", "waiting")
          /\ tabs' = [tabs EXCEPT ![t] = h] /\ UNCHANGED <<role, writer, dated>>
          /\ cookie' \in {cookie, Nobody}
      BY <1>4 DEF LoginFails, LogoutHeard, sessionHistory
    <2>2. TabIs(h) /\ h.users = tabs[t].users /\ h.loaded = tabs[t].loaded /\ h.who = tabs[t].who
      BY <2>1, HeardIs
    <2>3. h.calls = Heard(t).calls
      OBVIOUS
    <2> HIDE DEF h
    <2> QED BY <1>o, <2>1, <2>2, <2>3, EndKeeps
  <1>5. CASE LoadHeard(t) \/ LoadFails(t)
    <2> DEFINE y == [h EXCEPT !.loading = FALSE, !.loaded = TRUE, !.users = First(t).rows]
               z == [h EXCEPT !.loading = FALSE, !.loaded = FALSE]
    <2>1. /\ \/ Turn(t, "load", "answered") /\ tabs' = [tabs EXCEPT ![t] = y]
             \/ Turn(t, "load", "waiting") /\ tabs' = [tabs EXCEPT ![t] = z]
          /\ UNCHANGED <<role, cookie, writer, dated>>
      BY <1>5 DEF LoadHeard, LoadFails, sessionHistory
    <2>2. /\ TabIs(h) /\ h.who = tabs[t].who /\ \A k : ~FirstIs(h.calls, k)
          /\ tabs[t].calls[1] = First(t) /\ tabs[t].calls # <<>> /\ First(t).kind = "load"
          /\ Turn(t, "load", "answered") => /\ First(t).pc = "answered"
                                            /\ WillLoad(tabs[t].calls) => WillLoad(h.calls)
      BY <2>1, HeardIs DEF Turn, Calls
    <2> HIDE DEF h
    <2>3. /\ TabIs(y) /\ y.calls = h.calls /\ y.who = h.who /\ y.users = First(t).rows
          /\ TabIs(z) /\ z.calls = h.calls /\ z.who = h.who /\ z.loaded = FALSE
      BY <2>2 DEF TabIs, TabFields
    <2> HIDE DEF y, z
    <2>4. \A a \in Accounts : Shows(z, a, role'[a])
      BY <2>2, <2>3 DEF Shows
    <2>5. ASSUME NEW a \in Accounts, writer'[a] = t, Turn(t, "load", "answered")
          PROVE  Shows(y, a, role'[a])
      <3>1. Shows(tabs[t], a, role[a])
        BY <2>1, <2>5 DEF BrowserInv, TableShows
      <3>2. FirstIs(tabs[t].calls, "load") /\ ~FirstIs(tabs[t].calls, "change")
        BY <2>2, <2>5 DEF FirstIs
      <3> QED BY <2>1, <2>2, <2>3, <2>5, <3>1, <3>2 DEF Shows
    <2>6. /\ Foreign(y, cookie) => Foreign(tabs[t], cookie)
          /\ Foreign(z, cookie) => Foreign(tabs[t], cookie)
      BY <2>2, <2>3 DEF Foreign
    <2>7. RolesBy(t) /\ dated' = dated /\ cookie' \in {cookie, Nobody}
      BY <2>1, RolesChange DEF BrowserInv
    <2>8. CASE Turn(t, "load", "answered") /\ tabs' = [tabs EXCEPT ![t] = y]
      <3>1. \A u \in Tabs : Foreign(tabs'[u], cookie') => u \in dated'
        BY <2>6, <2>7, <2>8, SameAccounts
      <3>2. \A a \in Accounts : writer'[a] = t => Shows(y, a, role'[a])
        BY <2>5, <2>8
      <3> QED BY <2>3, <2>7, <2>8, <3>1, <3>2, TabStep
    <2>9. CASE Turn(t, "load", "waiting") /\ tabs' = [tabs EXCEPT ![t] = z]
      BY <2>3, <2>4, <2>6, <2>7, <2>9, SameAccounts, TabStep
    <2> QED BY <2>1, <2>8, <2>9
  <1>6. CASE LoginHeard(t)
    <2>1. /\ Turn(t, "login", "answered") /\ tabs' = [tabs EXCEPT ![t] = h]
          /\ dated' = {u \in Tabs : Knows(u)} /\ UNCHANGED <<role, writer>>
      BY <1>6 DEF LoginHeard
    <2>2. /\ TabIs(h) /\ h.users = tabs[t].users /\ h.loaded = tabs[t].loaded
          /\ h.who = tabs[t].who /\ \A k : ~FirstIs(h.calls, k)
          /\ WillLoad(tabs[t].calls) => WillLoad(h.calls)
          /\ tabs[t].calls[1] = First(t) /\ First(t).kind = "login"
      BY <2>1, HeardIs
    <2> HIDE DEF h
    <2>3. RolesBy(t) /\ UNCHANGED <<role, writer>>
      BY <2>1, RolesChange DEF BrowserInv
    <2>4. ASSUME NEW a \in Accounts, writer'[a] = t PROVE Shows(h, a, role'[a])
      <3>1. Shows(tabs[t], a, role[a])
        BY <2>1, <2>4 DEF BrowserInv, TableShows
      <3>2. ~FirstIs(tabs[t].calls, "load") /\ ~FirstIs(tabs[t].calls, "change")
        BY <2>2 DEF FirstIs
      <3> QED BY <2>1, <2>2, <3>1, <3>2 DEF Shows
    <2>5. ASSUME NEW u \in Tabs, Foreign(tabs'[u], cookie') PROVE u \in dated'
      <3>1. CASE u = t
        <4>1. tabs'[u] = h
          BY <2>1, <3>1 DEF BrowserInv, TabTypes
        <4>2. tabs[u].who # Unread
          BY <2>2, <2>5, <3>1, <4>1 DEF Foreign, OfOther
        <4> QED BY <2>1, <4>2 DEF Knows
      <3>2. CASE u # t
        <4>1. tabs'[u] = tabs[u] /\ QueueIs(tabs[u].calls)
          BY <2>1, <3>2, FirstOf DEF BrowserInv, TabTypes
        <4>2. CASE tabs[u].who # Unread
          BY <2>1, <4>2 DEF Knows
        <4>3. CASE FirstIs(tabs[u].calls, "session")
          <5>1. 1 \in DOMAIN tabs[u].calls
            BY <4>1, <4>3, SeqHead, SeqLen DEF FirstIs, QueueIs
          <5>2. \E i \in DOMAIN Calls(u) :
                  Calls(u)[i].kind = "session" /\ Calls(u)[i].pc = "answered"
            BY <4>3, <5>1 DEF FirstIs, Calls
          <5> QED BY <2>1, <5>2 DEF Knows
        <4> QED BY <2>5, <4>1, <4>2, <4>3 DEF Foreign, OfOther
      <3> QED BY <3>1, <3>2
    <2> QED BY <2>1, <2>2, <2>3, <2>4, <2>5, TabStep
  <1> QED BY <1>1, <1>2, <1>3, <1>4, <1>5, <1>6 DEF Hear

LEMMA BrowserStep ==
  ASSUME BrowserInv, [SessionNext]_sessionVars
  PROVE  BrowserInv'
  <1>1. CASE Expire
    <2>1. UNCHANGED <<role, tabs, writer, dated>> /\ cookie' = Nobody
      BY <1>1 DEF Expire, sessionHistory
    <2> QED BY <2>1 DEF BrowserInv, TabTypes, TableShows, OfAccount, Foreign, OfOther
  <1>2. CASE UNCHANGED sessionVars
    <2>1. UNCHANGED <<role, cookie, tabs, writer, dated>>
      BY <1>2 DEF sessionVars, sessionHistory
    <2> QED BY <2>1 DEF BrowserInv, TabTypes, TableShows, OfAccount
  <1>3. ASSUME NEW a \in Accounts, NEW r \in Roles, Elsewhere(a, r) PROVE BrowserInv'
    <2>1. /\ Changed(a, r, Nobody) /\ UNCHANGED <<cookie, tabs, dated>>
      BY <1>3 DEF Elsewhere, Changed
    <2>2. TabTypes'
      BY <2>1 DEF BrowserInv, TabTypes, Changed
    <2>3. ASSUME NEW t \in Tabs, NEW b \in Accounts, writer'[b] = t
          PROVE  writer[b] = t /\ role'[b] = role[b]
      BY <2>1, <2>3, SessionAssumption DEF BrowserInv, TabTypes, Changed
    <2>4. ASSUME NEW t \in Tabs PROVE TableShows(t)' /\ OfAccount(t)'
      BY <2>1, <2>3 DEF BrowserInv, TableShows, OfAccount
    <2> QED BY <2>2, <2>4 DEF BrowserInv
  <1>4. ASSUME NEW t \in Tabs, Surf(t) \/ Click(t) \/ ServeTab(t) \/ Hear(t)
        PROVE  BrowserInv'
    BY <1>4, SurfKeeps, ClickKeeps, TabServedKeeps, HearKeeps
  <1> QED BY <1>1, <1>2, <1>3, <1>4 DEF SessionNext

LEMMA BrowserInvHolds == SessionSpec => []BrowserInv
  <1>1. SessionInit => BrowserInv
    BY BrowserInit
  <1>2. BrowserInv /\ [SessionNext]_sessionVars => BrowserInv'
    BY BrowserStep
  <1> QED BY <1>1, <1>2, PTL DEF SessionSpec

\* A page shows and does things for the account that its calls are made for,
\* unless somebody has logged in since the server read the session for it.
THEOREM PagesAreOfTheirAccount == SessionSpec => []PageIsOfItsAccount
  <1>1. BrowserInv => PageIsOfItsAccount
    BY DEF BrowserInv, OfAccount, Foreign, OfOther, PageIsOfItsAccount
  <1> QED BY <1>1, BrowserInvHolds, PTL

\* When everything a tab has asked for is answered and its last load
\* succeeded, the role table shows each change that was made through it and
\* that nobody has changed since.
THEOREM OwnRoleChangesAreShown == SessionSpec => []OwnRoleChangeShown
  <1>1. BrowserInv => OwnRoleChangeShown
    <2> SUFFICES ASSUME BrowserInv, NEW t \in Tabs, NEW a \in Accounts,
                        tabs[t].calls = <<>>, tabs[t].loaded, writer[a] = t
                 PROVE  tabs[t].users[a] = role[a]
      BY DEF OwnRoleChangeShown
    <2>1. Shows(tabs[t], a, role[a])
      BY DEF BrowserInv, TableShows
    <2>2. ~WillLoad(tabs[t].calls) /\ \A k : ~FirstIs(tabs[t].calls, k)
      BY DEF WillLoad, FirstIs
    <2> QED BY <2>1, <2>2 DEF Shows
  <1> QED BY <1>1, BrowserInvHolds, PTL
=============================================================================
