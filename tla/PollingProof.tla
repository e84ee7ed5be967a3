----------------------------- MODULE PollingProof -----------------------------
(***************************************************************************)
(* Machine-checked proof that ETags do not lie: a response with the        *)
(* current ETag of its view has the current value of what the ETag covers, *)
(* for every choice of pages, every number of transactions and of lost     *)
(* answers, and answers however late.                                      *)
(*                                                                         *)
(* Within a generation revisions only grow, so that the tag of a response  *)
(* is never of the future (Past) and, once passed, does not come back.     *)
(* What a tag covers is read after the revisions, or hashed; and every     *)
(* transaction that changes it raises a revision of the tag (Announced).   *)
(*                                                                         *)
(* What a page assumes of the store is what RevisionedStore promises, and  *)
(* what StoreProof proves of the index cache (StoreAnnounces).             *)
(***************************************************************************)
EXTENDS RevisionPolling, TLAPS

EarlyLen(v) == Len(Early[v])
LateLen(v) == Len(Late[v])

\* The revisions of a tag are none of the future.
Past(v, tag) ==
    \/ tag.gen < gen
    \/ tag.gen = gen /\ \A r \in TagOf[v] : tag.rev[r] <= rev[r]

Vouched(v, tag, body) ==
    /\ tag \in Tags(v)
    /\ v \in Payload => tag = payloadETag(v, body)
    /\ v \notin Payload => Past(v, tag)
    /\ TagVouches(v, tag, body)

RequestTypes(r) ==
    /\ r = [view |-> r.view, live |-> r.live, tries |-> r.tries, inm |-> r.inm,
            tag |-> r.tag, body |-> r.body, next |-> r.next, status |-> r.status]
    /\ r.view \in views /\ r.live \in BOOLEAN /\ r.tries \in 0 .. 2
    /\ r.inm \in Tags(r.view) \cup {None}
    /\ r.body \in Bodies /\ r.status \in {"reading", "same", "ok"}
    /\ r.next \in 1 .. EarlyLen(r.view) + LateLen(r.view) + 2

\* What a request has read when it stands at a place of its handler.
RequestInv(r) ==
    /\ RequestTypes(r)
    /\ r.next <= EarlyLen(r.view) + 1 =>
          /\ r.status = "reading" /\ r.tag = None
          /\ \A i \in 1 .. r.next - 1 : \A p \in Early[r.view][i] : r.body[p] # None
          /\ \A p \in PartsOf(Late[r.view]) : r.body[p] = None
    /\ r.next > EarlyLen(r.view) + 1 => Vouched(r.view, r.tag, r.body)

StoreInv ==
    /\ content \in [Parts -> Nat] /\ rev \in [Resources -> Nat]
    /\ gen \in Nat /\ writes \in Nat
    /\ views \subseteq Views

CacheInv ==
    /\ cache = [v \in views |-> cache[v]]
    /\ \A v \in views : cache[v] # None =>
          cache[v] \in Responses(v) /\ Vouched(v, cache[v].tag, cache[v].body)

PageInv ==
    /\ data = [v \in views |-> data[v]] /\ \A v \in views : data[v] \in Bodies \cup {None}
    /\ poll \in Revs \cup {None} /\ seen \in Revs \cup {None}
    /\ visible \in BOOLEAN

RequestsInv ==
    /\ \A r \in requests : RequestInv(r)
    /\ \A v \in views : \A r, s \in Awaited(v) : r = s

Inv == StoreInv /\ CacheInv /\ PageInv /\ RequestsInv

-----------------------------------------------------------------------------
(* The handlers                                                            *)

LEMMA ViewNames ==
    /\ Views = {"list", "detail", "sessions", "workflow", "dashboard", "git"}
    /\ Payload \subseteq Views
  BY DEF Views, Early, Payload

LEMMA HandlerReads ==
    ASSUME NEW v \in Views
    PROVE  /\ EarlyLen(v) \in Nat /\ LateLen(v) \in Nat
           /\ \A i \in 1 .. EarlyLen(v) : Early[v][i] \subseteq Parts
           /\ \A i \in 1 .. LateLen(v) : Late[v][i] \subseteq Parts
           /\ PartsOf(Early[v]) = UNION {Early[v][i] : i \in 1 .. EarlyLen(v)}
           /\ PartsOf(Late[v]) = UNION {Late[v][i] : i \in 1 .. LateLen(v)}
           /\ PartsOf(Early[v]) \cap PartsOf(Late[v]) = {}
           /\ v \in Payload => Late[v] = <<>> /\ LateLen(v) = 0
           /\ v \notin Payload => LateLen(v) > 0 /\ Late[v] # <<>>
<1>1. CASE v = "list" BY <1>1 DEF EarlyLen, LateLen, Early, Late, PartsOf, Payload, Parts
<1>2. CASE v = "detail"
  BY <1>2 DEF EarlyLen, LateLen, Early, Late, PartsOf, Payload, Parts, DetailReads
<1>3. CASE v = "sessions" BY <1>3 DEF EarlyLen, LateLen, Early, Late, PartsOf, Payload, Parts
<1>4. CASE v = "workflow" BY <1>4 DEF EarlyLen, LateLen, Early, Late, PartsOf, Payload, Parts
<1>5. CASE v = "dashboard"
  BY <1>5 DEF EarlyLen, LateLen, Early, Late, PartsOf, Payload, Parts, DashboardReads
<1>6. CASE v = "git"
  BY <1>6 DEF EarlyLen, LateLen, Early, Late, PartsOf, Payload, Parts, GitReads
<1> QED BY <1>1, <1>2, <1>3, <1>4, <1>5, <1>6, ViewNames

LEMMA TagFacts ==
    ASSUME NEW v \in Views
    PROVE  /\ Shown(v) \subseteq Parts /\ Covered(v) \subseteq Shown(v)
           /\ v \notin Payload =>
                 /\ TagOf[v] \subseteq Resources /\ TagOf[v] \subseteq DOMAIN Triggers[v]
                 /\ Covered(v) \subseteq PartsOf(Late[v])
                 /\ \A p \in Covered(v) : Announces[p] \subseteq TagOf[v]
<1>1. Shown(v) \subseteq Parts BY HandlerReads DEF Shown
<1>2. Covered(v) \subseteq Shown(v) BY DEF Covered, Shown
<1>3. CASE v \in Payload BY <1>1, <1>2, <1>3
<1>4. CASE v \notin Payload
  <2>1. TagOf[v] \subseteq Resources /\ TagOf[v] \subseteq DOMAIN Triggers[v]
    BY <1>4, ViewNames DEF Payload, TagOf, Resources, Triggers
  <2> QED BY <1>1, <1>2, <1>4, <2>1 DEF Covered
<1> QED BY <1>3, <1>4

LEMMA TagType ==
    ASSUME StoreInv, NEW v \in Views, NEW body \in [Parts -> Nat \cup {None}],
           v \in Payload => \A p \in Shown(v) : body[p] # None
    PROVE  Tag(v, body) \in Tags(v)
<1>1. CASE v \in Payload
  <2>1. [p \in Shown(v) |-> body[p]] \in [Shown(v) -> Nat] BY <1>1, TagFacts
  <2> QED BY <1>1, <2>1 DEF Tag, Tags, payloadETag
<1>2. CASE v \notin Payload
  <2>1. [r \in TagOf[v] |-> rev[r]] \in [TagOf[v] -> Nat] BY <1>2, TagFacts DEF StoreInv
  <2> QED BY <1>2, <2>1 DEF Tag, Tags, StoreInv
<1> QED BY <1>1, <1>2

\* What is read after the revisions is what the tag vouches for.
LEMMA NowVouched ==
    ASSUME StoreInv, NEW v \in Views, NEW body \in [Parts -> Nat \cup {None}],
           v \in Payload => \A p \in Shown(v) : body[p] # None,
           v \notin Payload => \A p \in Covered(v) : body[p] \in {content[p], None}
    PROVE  Vouched(v, Tag(v, body), body)
<1>1. Tag(v, body) \in Tags(v) BY TagType
<1>2. CASE v \in Payload
  <2>1. Tag(v, body) = payloadETag(v, body) /\ Tag(v, content) = payloadETag(v, content)
    BY <1>2 DEF Tag
  <2>2. payloadETag(v, body) = payloadETag(v, content) =>
           \A p \in Shown(v) : body[p] = content[p]
    <3> SUFFICES ASSUME payloadETag(v, body) = payloadETag(v, content), NEW p \in Shown(v)
                 PROVE  body[p] = content[p]
      OBVIOUS
    <3>1. payloadETag(v, body)[p] = body[p] /\ payloadETag(v, content)[p] = content[p]
      BY DEF payloadETag
    <3> QED BY <3>1
  <2>3. TagVouches(v, Tag(v, body), body) BY <2>1, <2>2, TagFacts DEF TagVouches
  <2> QED BY <1>1, <1>2, <2>1, <2>3 DEF Vouched
<1>3. CASE v \notin Payload
  <2>1. Tag(v, body) = [gen |-> gen, rev |-> [r \in TagOf[v] |-> rev[r]]]
    BY <1>3 DEF Tag
  <2>2. Past(v, Tag(v, body)) BY <1>3, <2>1, TagFacts DEF Past, StoreInv
  <2>3. TagVouches(v, Tag(v, body), body) BY <1>3 DEF TagVouches
  <2> QED BY <1>1, <1>3, <2>2, <2>3 DEF Vouched
<1> QED BY <1>2, <1>3

-----------------------------------------------------------------------------
(* Transactions                                                            *)

\* A transaction that changes a part raises a revision that announces it, or
\* starts a generation.
Announced ==
    /\ UNCHANGED page
    /\ content' \in [Parts -> Nat] /\ rev' \in [Resources -> Nat]
    /\ writes' \in Nat /\ gen' \in Nat
    /\ \/ gen' > gen
       \/ /\ gen' = gen /\ \A r \in Resources : rev'[r] >= rev[r]
          /\ \A p \in Parts : content'[p] # content[p] =>
                p \in Displayed
                /\ \E a \in Announces[p] \cap Resources : a \in Watched => rev'[a] > rev[a]

LEMMA WriteAnnounced ==
    ASSUME StoreInv, NEW parts, NEW resources, Write(parts, resources),
           \A p \in parts \cap Parts : Announces[p] \cap resources \cap Resources # {}
    PROVE  Announced
<1>1. /\ writes' = writes + 1 /\ gen' = gen /\ UNCHANGED page
      /\ content' = [p \in Parts |-> IF p \in parts \cap Displayed THEN writes + 1
                                                             ELSE content[p]]
      /\ rev' = [r \in Resources |-> IF r \in resources \cap Watched THEN rev[r] + 1
                                                               ELSE rev[r]]
  BY DEF Write
<1>2. content' \in [Parts -> Nat] /\ rev' \in [Resources -> Nat] BY <1>1 DEF StoreInv
<1>3. \A r \in Resources : rev'[r] >= rev[r] BY <1>1 DEF StoreInv
<1>4. ASSUME NEW p \in Parts, content'[p] # content[p]
      PROVE  /\ p \in Displayed
             /\ \E a \in Announces[p] \cap Resources : a \in Watched => rev'[a] > rev[a]
  <2>1. p \in parts \cap Displayed BY <1>1, <1>4
  <2>2. PICK a \in Announces[p] \cap Resources : a \in resources BY <2>1
  <2>3. a \in Watched => rev'[a] = rev[a] + 1 BY <1>1, <2>2
  <2>4. rev[a] \in Nat BY <2>2 DEF StoreInv
  <2> QED BY <2>1, <2>2, <2>3, <2>4
<1> QED BY <1>1, <1>2, <1>3, <1>4 DEF Announced, StoreInv

LEMMA TransactionAnnounced == ASSUME StoreInv, Transaction PROVE Announced
<1>1. CASE WriteTasks
  BY <1>1, WriteAnnounced DEF WriteTasks, Announces, Promised!Covers, Parts, Resources
<1>2. CASE WriteSessions
  BY <1>2, WriteAnnounced DEF WriteSessions, Announces, Promised!Covers, Parts, Resources
<1>3. CASE WriteGit
  BY <1>3, WriteAnnounced DEF WriteGit, Announces, Promised!Covers, Parts, Resources
<1>4. CASE WriteActivity
  BY <1>4, WriteAnnounced DEF WriteActivity, Announces, Promised!Covers, Parts, Resources
<1>5. CASE Midnight
  BY <1>5, WriteAnnounced DEF Midnight, Announces, Promised!Covers, Parts, Resources
<1>6. CASE Recreate
  <2>1. gen' > gen BY <1>6 DEF Recreate, StoreInv
  <2>2. content' \in [Parts -> Nat] BY <1>6 DEF Recreate, StoreInv
  <2>3. rev' \in [Resources -> Nat] BY <1>6 DEF Recreate, StoreInv
  <2> QED BY <1>6, <2>1, <2>2, <2>3 DEF Recreate, Announced, StoreInv
<1> QED BY <1>1, <1>2, <1>3, <1>4, <1>5, <1>6 DEF Transaction

LEMMA StillVouched ==
    ASSUME StoreInv, Announced, NEW v \in views, NEW tag, NEW body, Vouched(v, tag, body)
    PROVE  (v \notin Payload => Past(v, tag)') /\ TagVouches(v, tag, body)'
<1>1. v \in Views /\ tag \in Tags(v) BY DEF StoreInv, Vouched
<1>2. CASE v \in Payload
  <2>1. tag = payloadETag(v, body) /\ Tag(v, content)' = payloadETag(v, content')
    BY <1>2 DEF Vouched, Tag
  <2>2. tag = payloadETag(v, content') => \A p \in Shown(v) : body[p] = content'[p]
    <3> SUFFICES ASSUME payloadETag(v, body) = payloadETag(v, content'), NEW p \in Shown(v)
                 PROVE  body[p] = content'[p]
      BY <2>1
    <3>1. payloadETag(v, body)[p] = body[p] /\ payloadETag(v, content')[p] = content'[p]
      BY DEF payloadETag
    <3> QED BY <3>1
  <2> QED BY <1>1, <1>2, <2>1, <2>2, TagFacts DEF TagVouches
<1>3. CASE v \notin Payload
  <2>1. /\ tag.gen \in Nat /\ \A r \in TagOf[v] : r \in Resources /\ tag.rev[r] \in Nat
        /\ gen \in Nat /\ gen' \in Nat
        /\ \A r \in Resources : rev[r] \in Nat /\ rev'[r] \in Nat
    BY <1>1, <1>3, TagFacts DEF Tags, StoreInv, Announced
  <2>2. \/ tag.gen < gen
        \/ tag.gen = gen /\ \A r \in TagOf[v] : tag.rev[r] <= rev[r]
    BY <1>3 DEF Vouched, Past
  <2>3. \/ tag.gen < gen'
        \/ /\ tag.gen = gen' /\ gen' = gen
           /\ \A r \in TagOf[v] : tag.rev[r] <= rev[r] /\ rev[r] <= rev'[r]
    BY <2>1, <2>2 DEF Announced
  <2>4. Past(v, tag)' BY <2>1, <2>3 DEF Past
  <2>5. ASSUME tag = [gen |-> gen', rev |-> [r \in TagOf[v] |-> rev'[r]]],
               NEW p \in Covered(v)
        PROVE  body[p] \in {content'[p], None}
    <3>1. gen' = gen /\ \A r \in TagOf[v] : rev'[r] = rev[r]
      <4>1. tag.gen = gen' /\ \A r \in TagOf[v] : tag.rev[r] = rev'[r] BY <2>5
      <4>2. gen' = gen BY <2>1, <2>3, <4>1
      <4>3. \A r \in TagOf[v] : rev'[r] <= rev[r] /\ rev[r] <= rev'[r]
        BY <2>1, <2>3, <4>1
      <4> QED BY <2>1, <4>2, <4>3
    <3>2. tag = Tag(v, content) BY <1>3, <2>5, <3>1 DEF Tag
    <3>3. body[p] \in {content[p], None} BY <2>5, <3>2 DEF Vouched, TagVouches
    <3>4. content'[p] = content[p]
      <4> SUFFICES ASSUME content'[p] # content[p] PROVE FALSE
        OBVIOUS
      <4>1. p \in Parts BY <1>1, <2>5, TagFacts
      <4>2. PICK a \in Announces[p] \cap Resources : a \in Watched => rev'[a] > rev[a]
        BY <2>1, <3>1, <4>1 DEF Announced
      <4>3. a \in TagOf[v] /\ a \in DOMAIN Triggers[v] BY <1>1, <1>3, <2>5, <4>2, TagFacts
      <4>4. a \in Watched BY <4>3 DEF Watched
      <4> QED BY <2>1, <3>1, <4>2, <4>3, <4>4
    <3> QED BY <3>3, <3>4
  <2>6. Tag(v, content)' = [gen |-> gen', rev |-> [r \in TagOf[v] |-> rev'[r]]]
    BY <1>3 DEF Tag
  <2> QED BY <1>3, <2>4, <2>5, <2>6 DEF TagVouches
<1> QED BY <1>2, <1>3

LEMMA TransactionInv == ASSUME Inv, Transaction PROVE Inv'
<1>1. Announced BY TransactionAnnounced DEF Inv
<1>2. UNCHANGED page BY <1>1 DEF Announced
<1>3. StoreInv' BY <1>1 DEF Announced, page, Inv, StoreInv
<1>4. ASSUME NEW v \in views, NEW tag, NEW body, Vouched(v, tag, body)
      PROVE  Vouched(v, tag, body)'
  BY <1>1, <1>4, StillVouched DEF Inv, Vouched
<1>5. CacheInv' BY <1>2, <1>4 DEF page, Inv, CacheInv
<1>6. PageInv' BY <1>2 DEF page, Inv, PageInv
<1>7. ASSUME NEW r \in requests PROVE RequestInv(r)'
  <2>1. RequestInv(r) /\ r.view \in views BY DEF Inv, RequestsInv, RequestInv, RequestTypes
  <2>2. RequestTypes(r)' BY <1>2, <2>1 DEF page, RequestInv, RequestTypes
  <2>3. r.next > EarlyLen(r.view) + 1 => Vouched(r.view, r.tag, r.body)'
    BY <1>4, <2>1 DEF RequestInv
  <2> QED BY <2>1, <2>2, <2>3 DEF RequestInv
<1>8. RequestsInv' BY <1>2, <1>7 DEF page, Inv, RequestsInv, Awaited
<1> QED BY <1>3, <1>5, <1>6, <1>8 DEF Inv

\* Whatever announces a change of what a view shows invalidates the view
\* (useProjectPolling.ts:45-75).
LEMMA ShownIsWatched ==
    ASSUME NEW v \in Views, NEW p \in Shown(v)
    PROVE  Announces[p] \subseteq DOMAIN Triggers[v]
<1>1. p \in PartsOf(Early[v]) \cup PartsOf(Late[v]) BY DEF Shown
<1>2. PartsOf(<<>>) = {} BY DEF PartsOf
<1>3. CASE v = "list"
  <2>1. PartsOf(<<{"facts", "runtime"}>>) = {"facts", "runtime"} BY DEF PartsOf
  <2>2. p \in {"facts", "runtime"} BY <1>1, <1>2, <1>3, <2>1 DEF Early, Late
  <2> QED BY <1>3, <2>2 DEF Announces, Promised!Covers, Triggers
<1>4. CASE v = "detail"
  <2>1. PartsOf(<<{"facts", "runtime"}>>) = {"facts", "runtime"} BY DEF PartsOf
  <2>2. PartsOf(DetailReads) = {"context", "sessions", "activity"} BY DEF PartsOf, DetailReads
  <2>3. p \in {"facts", "runtime", "context", "sessions", "activity"}
    BY <1>1, <1>4, <2>1, <2>2 DEF Early, Late
  <2> QED BY <1>4, <2>3 DEF Announces, Promised!Covers, Triggers
<1>5. CASE v = "sessions"
  <2>1. PartsOf(<<{"sessions"}>>) = {"sessions"} BY DEF PartsOf
  <2>2. p = "sessions" BY <1>1, <1>2, <1>5, <2>1 DEF Early, Late
  <2> QED BY <1>5, <2>2 DEF Announces, Promised!Covers, Triggers
<1>6. CASE v = "workflow"
  <2>1. PartsOf(<<{"flow"}>>) = {"flow"} BY DEF PartsOf
  <2>2. p = "flow" BY <1>1, <1>2, <1>6, <2>1 DEF Early, Late
  <2> QED BY <1>6, <2>2 DEF Announces, Promised!Covers, Triggers
<1>7. CASE v = "dashboard"
  <2>1. p \in Parts /\ DOMAIN Triggers[v] = Resources BY <1>7, TagFacts DEF Triggers
  <2> QED BY <2>1 DEF Announces, Promised!Covers, Parts, Resources
<1>8. CASE v = "git"
  <2>1. PartsOf(GitReads) = {"git", "facts"} BY DEF PartsOf, GitReads
  <2>2. p \in {"git", "facts"} BY <1>1, <1>2, <1>8, <2>1 DEF Early, Late
  <2> QED BY <1>8, <2>2 DEF Announces, Promised!Covers, Triggers
<1> QED BY <1>3, <1>4, <1>5, <1>6, <1>7, <1>8, ViewNames

\* So a transaction of one generation is one the promise allows.
LEMMA TransactionPromised ==
    ASSUME StoreInv, Announced, gen' = gen
    PROVE  Promised!Publish
<1>1. gen \in Nat /\ ~(gen' > gen) BY DEF StoreInv
<1>2. \A r \in Resources : rev'[r] >= rev[r] BY <1>1 DEF Announced
<1>3. ASSUME NEW p \in Parts, content'[p] # content[p]
      PROVE  \E a \in Announces[p] : rev'[a] > rev[a]
  <2>1. PICK a \in Announces[p] \cap Resources : a \in Watched => rev'[a] > rev[a]
    BY <1>1, <1>3 DEF Announced
  <2>2. PICK v \in views : p \in Shown(v) BY <1>1, <1>3 DEF Announced, Displayed
  <2>3. a \in DOMAIN Triggers[v] BY <2>1, <2>2, ShownIsWatched DEF StoreInv
  <2> QED BY <2>1, <2>3 DEF Watched
<1> QED BY <1>2, <1>3 DEF Promised!Publish, Announces

-----------------------------------------------------------------------------
(* The page                                                                *)

\* Nothing of a vouched response depends on what the page does.
LEMMA PageStep ==
    ASSUME Inv, UNCHANGED <<store, views>>, CacheInv', PageInv',
           \A r \in requests' : r \in requests \/ RequestInv(r),
           \A v \in views : \A r, s \in requests' :
              r.view = v /\ r.live /\ s.view = v /\ s.live => r = s
    PROVE  Inv'
<1>1. StoreInv' BY DEF store, Inv, StoreInv
<1>2. ASSUME NEW r, RequestInv(r) PROVE RequestInv(r)'
  <2>1. RequestTypes(r)' BY <1>2 DEF RequestInv, RequestTypes
  <2>2. Vouched(r.view, r.tag, r.body) => Vouched(r.view, r.tag, r.body)'
    BY DEF store, Vouched, Past, TagVouches, Tag
  <2> QED BY <1>2, <2>1, <2>2 DEF RequestInv
<1>3. RequestsInv' BY <1>2 DEF Inv, RequestsInv, Awaited
<1> QED BY <1>1, <1>3 DEF Inv

LEMMA SameCache == Inv /\ UNCHANGED <<store, views, cache>> => CacheInv'
  BY DEF store, Inv, CacheInv, Vouched, Past, TagVouches, Tag

LEMMA SamePage == Inv /\ UNCHANGED <<views, data, poll, seen, visible>> => PageInv'
  BY DEF Inv, PageInv

LEMMA Requested ==
    ASSUME NEW v, NEW live, NEW tries, NEW inm, NEW tag, NEW body, NEW next, NEW status,
           NEW r, r = [view |-> v, live |-> live, tries |-> tries, inm |-> inm, tag |-> tag,
                       body |-> body, next |-> next, status |-> status]
    PROVE  /\ \A n : [r EXCEPT !.tries = n] =
                     [view |-> v, live |-> live, tries |-> n, inm |-> inm, tag |-> tag,
                      body |-> body, next |-> next, status |-> status]
           /\ \A x : [r EXCEPT !.live = x] =
                     [view |-> v, live |-> x, tries |-> tries, inm |-> inm, tag |-> tag,
                      body |-> body, next |-> next, status |-> status]
           /\ r.view = v /\ r.live = live /\ r.tries = tries /\ r.inm = inm /\ r.tag = tag
           /\ r.body = body /\ r.next = next /\ r.status = status
<1>1. \A n : [r EXCEPT !.tries = n] =
               [view |-> v, live |-> live, tries |-> n, inm |-> inm, tag |-> tag,
                body |-> body, next |-> next, status |-> status]
  OBVIOUS
<1>2. \A x : [r EXCEPT !.live = x] =
               [view |-> v, live |-> x, tries |-> tries, inm |-> inm, tag |-> tag,
                body |-> body, next |-> next, status |-> status]
  OBVIOUS
<1>3. /\ r.view = v /\ r.live = live /\ r.tries = tries /\ r.inm = inm /\ r.tag = tag
      /\ r.body = body /\ r.next = next /\ r.status = status
  OBVIOUS
<1> QED BY <1>1, <1>2, <1>3

\* Before the first query.
LEMMA Fresh ==
    ASSUME Inv, NEW v \in views, NEW live \in BOOLEAN, NEW n \in 0 .. 2,
           NEW r, r = [view |-> v, live |-> live, tries |-> n,
                       inm |-> IF cache[v] = None THEN None ELSE cache[v].tag, tag |-> None,
                       body |-> NoBody, next |-> 1, status |-> "reading"]
    PROVE  RequestInv(r)
<1>1. v \in Views BY DEF Inv, StoreInv
<1> DEFINE inm == IF cache[v] = None THEN None ELSE cache[v].tag
<1>2. inm \in Tags(v) \cup {None} BY DEF Inv, CacheInv, Vouched
<1>3. NoBody \in Bodies /\ \A p \in Parts : NoBody[p] = None BY DEF NoBody, Bodies
<1>4. r = [view |-> v, live |-> live, tries |-> n, inm |-> inm, tag |-> None,
           body |-> NoBody, next |-> 1, status |-> "reading"]
  OBVIOUS
<1> HIDE DEF inm
<1>5. /\ r.view = v /\ r.live = live /\ r.tries = n /\ r.inm = inm /\ r.tag = None
      /\ r.body = NoBody /\ r.next = 1 /\ r.status = "reading"
  BY <1>4
<1>6. EarlyLen(v) \in Nat /\ LateLen(v) \in Nat BY <1>1, HandlerReads
<1>7. 1 \in 1 .. EarlyLen(v) + LateLen(v) + 2 BY <1>6
<1>8. RequestTypes(r) BY <1>2, <1>3, <1>4, <1>5, <1>7 DEF RequestTypes
<1>9. PartsOf(Late[v]) \subseteq Parts BY <1>1, TagFacts DEF Shown
<1>10. ~(r.next > EarlyLen(r.view) + 1) BY <1>5, <1>6
<1>11. \A i \in 1 .. r.next - 1 : FALSE BY <1>5
<1>12. \A p \in PartsOf(Late[r.view]) : r.body[p] = None BY <1>3, <1>5, <1>9
<1>13. r.status = "reading" /\ r.tag = None BY <1>5
<1> QED BY <1>8, <1>10, <1>11, <1>12, <1>13 DEF RequestInv

LEMMA Asked ==
    ASSUME Inv, NEW v \in views
    PROVE  /\ RequestInv(New(v)) /\ New(v).view = v /\ New(v).live = TRUE
           /\ \A n \in 0 .. 2 : /\ RequestInv([New(v) EXCEPT !.tries = n])
                                /\ [New(v) EXCEPT !.tries = n].view = v
           /\ RequestInv([New(v) EXCEPT !.live = FALSE])
           /\ [New(v) EXCEPT !.live = FALSE].view = v
           /\ [New(v) EXCEPT !.live = FALSE].live = FALSE
<1> DEFINE inm == IF cache[v] = None THEN None ELSE cache[v].tag
<1>1. New(v) = [view |-> v, live |-> TRUE, tries |-> 0, inm |-> inm, tag |-> None,
                body |-> NoBody, next |-> 1, status |-> "reading"]
  BY DEF New
<1>2. /\ New(v).view = v /\ New(v).live = TRUE
      /\ \A n \in 0 .. 2 : [New(v) EXCEPT !.tries = n] =
              [view |-> v, live |-> TRUE, tries |-> n, inm |-> inm, tag |-> None,
               body |-> NoBody, next |-> 1, status |-> "reading"]
      /\ [New(v) EXCEPT !.live = FALSE] =
              [view |-> v, live |-> FALSE, tries |-> 0, inm |-> inm, tag |-> None,
               body |-> NoBody, next |-> 1, status |-> "reading"]
  <2> DEFINE r == New(v)
             live == TRUE
             body == NoBody
  <2> HIDE DEF inm
  <2>1. r = [view |-> v, live |-> live, tries |-> 0, inm |-> inm, tag |-> None,
             body |-> body, next |-> 1, status |-> "reading"]
    BY <1>1
  <2> HIDE DEF r, live, body
  <2>2. /\ r.view = v /\ r.live = live
        /\ \A n \in 0 .. 2 : [r EXCEPT !.tries = n] =
              [view |-> v, live |-> live, tries |-> n, inm |-> inm, tag |-> None,
               body |-> body, next |-> 1, status |-> "reading"]
        /\ \A x : [r EXCEPT !.live = x] =
              [view |-> v, live |-> x, tries |-> 0, inm |-> inm, tag |-> None,
               body |-> body, next |-> 1, status |-> "reading"]
    BY <2>1, Requested
  <2> QED BY <2>2 DEF r, live, body
<1>3. RequestInv(New(v))
  <2> DEFINE live == TRUE
             n == 0
  <2>1. live \in BOOLEAN /\ n \in 0 .. 2 OBVIOUS
  <2>2. New(v) = [view |-> v, live |-> live, tries |-> n, inm |-> inm, tag |-> None,
                  body |-> NoBody, next |-> 1, status |-> "reading"]
    BY <1>1
  <2> HIDE DEF live, n
  <2> QED BY <2>1, <2>2, Fresh
<1>4. ASSUME NEW n \in 0 .. 2
      PROVE  /\ RequestInv([New(v) EXCEPT !.tries = n])
             /\ [New(v) EXCEPT !.tries = n].view = v
  <2>1. RequestInv([New(v) EXCEPT !.tries = n]) BY <1>2, Fresh
  <2> HIDE DEF inm
  <2>2. [New(v) EXCEPT !.tries = n].view = v BY <1>2
  <2> QED BY <2>1, <2>2
<1>5. RequestInv([New(v) EXCEPT !.live = FALSE])
  <2> DEFINE live == FALSE
             n == 0
  <2>1. live \in BOOLEAN /\ n \in 0 .. 2 OBVIOUS
  <2>2. [New(v) EXCEPT !.live = FALSE] =
           [view |-> v, live |-> live, tries |-> n, inm |-> inm, tag |-> None,
            body |-> NoBody, next |-> 1, status |-> "reading"]
    BY <1>2
  <2> HIDE DEF live, n
  <2> QED BY <2>1, <2>2, Fresh
<1>6. /\ [New(v) EXCEPT !.live = FALSE].view = v
      /\ [New(v) EXCEPT !.live = FALSE].live = FALSE
  <2> HIDE DEF inm
  <2> QED BY <1>2
<1> QED BY <1>2, <1>3, <1>4, <1>5, <1>6

\* A request that nobody awaits any more.
LEMMA Unawaited ==
    ASSUME Inv, NEW r \in requests
    PROVE  /\ RequestInv([r EXCEPT !.live = FALSE])
           /\ [r EXCEPT !.live = FALSE].view = r.view /\ [r EXCEPT !.live = FALSE].live = FALSE
<1> DEFINE s == [r EXCEPT !.live = FALSE]
<1>1. RequestInv(r) /\ RequestTypes(r) BY DEF Inv, RequestsInv, RequestInv
<1>2. r = [view |-> r.view, live |-> r.live, tries |-> r.tries, inm |-> r.inm,
           tag |-> r.tag, body |-> r.body, next |-> r.next, status |-> r.status]
  BY <1>1 DEF RequestTypes
<1>3. s = [view |-> r.view, live |-> FALSE, tries |-> r.tries, inm |-> r.inm,
           tag |-> r.tag, body |-> r.body, next |-> r.next, status |-> r.status]
  <2> DEFINE view == r.view
             live == r.live
             tries == r.tries
             inm == r.inm
             tag == r.tag
             body == r.body
             next == r.next
             status == r.status
  <2>1. r = [view |-> view, live |-> live, tries |-> tries, inm |-> inm, tag |-> tag,
             body |-> body, next |-> next, status |-> status]
    BY <1>2
  <2> HIDE DEF view, live, tries, inm, tag, body, next, status
  <2>2. \A x : [r EXCEPT !.live = x] =
            [view |-> view, live |-> x, tries |-> tries, inm |-> inm, tag |-> tag,
             body |-> body, next |-> next, status |-> status]
    BY <2>1, Requested
  <2> QED BY <2>2 DEF view, live, tries, inm, tag, body, next, status
<1> HIDE DEF s
<1>4. /\ s.view = r.view /\ s.live = FALSE /\ s.tries = r.tries /\ s.inm = r.inm
      /\ s.tag = r.tag /\ s.body = r.body /\ s.next = r.next /\ s.status = r.status
  BY <1>3
<1>5. RequestTypes(s) BY <1>1, <1>3, <1>4 DEF RequestTypes
<1>6. RequestInv(s) BY <1>1, <1>4, <1>5 DEF RequestInv
<1> QED BY <1>4, <1>6 DEF s

\* The request makes way for another one of the same view, or for none.
LEMMA BecomeInv ==
    ASSUME Inv, UNCHANGED <<store, views>>, CacheInv', PageInv', NEW r \in requests, NEW new,
           Become(r, new),
           \A s, t \in new : s = t,
           \A s \in new : RequestInv(s) /\ s.view = r.view /\ (s.live => r.live)
    PROVE  Inv'
<1>1. requests' = (requests \ {r}) \cup new BY DEF Become
<1>2. \A v \in views : \A s, t \in requests :
         s.view = v /\ s.live /\ t.view = v /\ t.live => s = t
  BY DEF Inv, RequestsInv, Awaited
<1>3. ASSUME NEW v \in views, NEW s \in requests', NEW t \in requests',
             s.view = v, s.live, t.view = v, t.live
      PROVE  s = t
  <2>1. CASE s \in new /\ t \in new BY <2>1
  <2>2. CASE s \in new /\ t \in requests \ {r} BY <1>2, <1>3, <2>2
  <2>3. CASE s \in requests \ {r} /\ t \in new BY <1>2, <1>3, <2>3
  <2>4. CASE s \in requests /\ t \in requests BY <1>2, <1>3, <2>4
  <2> QED BY <1>1, <2>1, <2>2, <2>3, <2>4
<1> QED BY <1>1, <1>3, PageStep

\* What becomes of a request that reads on.
LEMMA ReadsOn ==
    ASSUME NEW r, RequestTypes(r), NEW next, NEW body, NEW tag, NEW status
    PROVE  /\ [r EXCEPT !.next = next, !.body = body] =
                 [view |-> r.view, live |-> r.live, tries |-> r.tries, inm |-> r.inm,
                  tag |-> r.tag, body |-> body, next |-> next, status |-> r.status]
           /\ [r EXCEPT !.next = next, !.tag = tag, !.status = status] =
                 [view |-> r.view, live |-> r.live, tries |-> r.tries, inm |-> r.inm,
                  tag |-> tag, body |-> r.body, next |-> next, status |-> status]
<1> DEFINE view == r.view
           live == r.live
           tries == r.tries
           inm == r.inm
           tag0 == r.tag
           body0 == r.body
           next0 == r.next
           status0 == r.status
<1>1. r = [view |-> view, live |-> live, tries |-> tries, inm |-> inm, tag |-> tag0,
           body |-> body0, next |-> next0, status |-> status0]
  BY DEF RequestTypes
<1> HIDE DEF view, live, tries, inm, tag0, body0, next0, status0
<1> DEFINE at == [r EXCEPT !.next = next]
           atTag == [at EXCEPT !.tag = tag]
<1>2. at = [view |-> view, live |-> live, tries |-> tries, inm |-> inm, tag |-> tag0,
            body |-> body0, next |-> next, status |-> status0]
  BY <1>1
<1>3. /\ [r EXCEPT !.next = next, !.body = body] = [at EXCEPT !.body = body]
      /\ [r EXCEPT !.next = next, !.tag = tag, !.status = status] =
            [atTag EXCEPT !.status = status]
  OBVIOUS
<1> HIDE DEF at
<1>4. [at EXCEPT !.body = body] =
          [view |-> view, live |-> live, tries |-> tries, inm |-> inm, tag |-> tag0,
           body |-> body, next |-> next, status |-> status0]
  BY <1>2
<1>5. atTag = [view |-> view, live |-> live, tries |-> tries, inm |-> inm, tag |-> tag,
               body |-> body0, next |-> next, status |-> status0]
  BY <1>2
<1> HIDE DEF atTag
<1>6. [atTag EXCEPT !.status = status] =
          [view |-> view, live |-> live, tries |-> tries, inm |-> inm, tag |-> tag,
           body |-> body0, next |-> next, status |-> status]
  BY <1>5
<1> QED BY <1>3, <1>4, <1>6 DEF view, live, tries, inm, tag0, body0, status0

\* A query before the ETag.
LEMMA ReadEarlyInv == ASSUME Inv, NEW r \in requests, ReadEarly(r) PROVE Inv'
<1> DEFINE v == r.view
           parts == Early[v][r.next]
           body == [p \in Parts |-> IF p \in parts THEN content[p] ELSE r.body[p]]
           s == ReadParts(r, parts)
<1>1. RequestInv(r) /\ RequestTypes(r) /\ v \in views /\ v \in Views /\ StoreInv
  BY DEF Inv, StoreInv, RequestsInv, RequestInv, RequestTypes
<1>2. /\ r.status = "reading" /\ r.next <= EarlyLen(v) /\ Become(r, {s})
      /\ UNCHANGED <<store, views, data, cache, poll, seen, visible, faults>>
  BY DEF ReadEarly, EarlyLen
<1>3. /\ EarlyLen(v) \in Nat /\ LateLen(v) \in Nat /\ r.next \in Nat /\ r.next >= 1
      /\ r.tag = None /\ r.body \in [Parts -> Nat \cup {None}]
      /\ \A i \in 1 .. r.next - 1 : \A p \in Early[v][i] : r.body[p] # None
      /\ \A p \in PartsOf(Late[v]) : r.body[p] = None
  BY <1>1, <1>2, HandlerReads DEF RequestInv, RequestTypes, Bodies
<1>4. parts \subseteq Parts /\ parts \subseteq PartsOf(Early[v])
  BY <1>1, <1>2, <1>3, HandlerReads
<1>5. /\ body \in [Parts -> Nat \cup {None}]
      /\ \A p \in Parts : body[p] = IF p \in parts THEN content[p] ELSE r.body[p]
  BY <1>1, <1>3 DEF StoreInv
<1>6. s = [view |-> v, live |-> r.live, tries |-> r.tries, inm |-> r.inm, tag |-> r.tag,
           body |-> body, next |-> r.next + 1, status |-> r.status]
  <2> DEFINE next == r.next + 1
  <2>1. s = [r EXCEPT !.next = next, !.body = body] BY DEF ReadParts
  <2> HIDE DEF next, body, s, v
  <2>2. s = [view |-> r.view, live |-> r.live, tries |-> r.tries, inm |-> r.inm,
             tag |-> r.tag, body |-> body, next |-> next, status |-> r.status]
    BY <1>1, <2>1, ReadsOn
  <2> QED BY <2>2 DEF next, v
<1> HIDE DEF s, body, parts, v
<1>7. /\ s.view = v /\ s.live = r.live /\ s.tries = r.tries /\ s.inm = r.inm
      /\ s.tag = r.tag /\ s.body = body /\ s.next = r.next + 1 /\ s.status = r.status
  BY <1>6
<1>8. RequestTypes(s)
  <2>1. s.next \in 1 .. EarlyLen(v) + LateLen(v) + 2 BY <1>2, <1>3, <1>7
  <2> QED BY <1>1, <1>5, <1>6, <1>7, <2>1 DEF RequestTypes, v, Bodies
<1>9. RequestInv(s)
  <2>1. ~(s.next > EarlyLen(v) + 1) BY <1>2, <1>3, <1>7
  <2>2. ASSUME NEW i \in 1 .. s.next - 1, NEW p \in Early[v][i] PROVE s.body[p] # None
    <3>1. i \in 1 .. EarlyLen(v) /\ (i = r.next \/ i \in 1 .. r.next - 1)
      BY <1>2, <1>3, <1>7, <2>2
    <3>2. p \in Parts BY <1>1, <3>1, <2>2, HandlerReads
    <3>3. content[p] # None BY <1>1, <3>2, NoneAssumption DEF StoreInv
    <3>4. CASE i = r.next
      <4>1. p \in parts BY <2>2, <3>4 DEF parts
      <4> QED BY <1>5, <1>7, <3>2, <3>3, <4>1
    <3>5. CASE i \in 1 .. r.next - 1
      <4>1. r.body[p] # None BY <1>3, <2>2, <3>5
      <4> QED BY <1>5, <1>7, <3>2, <3>3, <4>1
    <3> QED BY <3>1, <3>4, <3>5
  <2>3. \A p \in PartsOf(Late[v]) : s.body[p] = None
    <3> SUFFICES ASSUME NEW p \in PartsOf(Late[v]) PROVE s.body[p] = None
      OBVIOUS
    <3>1. p \notin parts /\ p \in Parts BY <1>1, <1>4, HandlerReads, TagFacts DEF Shown
    <3> QED BY <1>3, <1>5, <1>7, <3>1
  <2> QED BY <1>2, <1>3, <1>7, <1>8, <2>1, <2>2, <2>3 DEF RequestInv
<1>10. CacheInv' /\ PageInv' BY <1>2, SameCache, SamePage
<1>11. \A t \in {s} : RequestInv(t) /\ t.view = r.view /\ (t.live => r.live)
  BY <1>7, <1>9 DEF v
<1>12. \A t, u \in {s} : t = u OBVIOUS
<1> DEFINE new == {s}
<1> HIDE DEF new
<1>13. /\ Become(r, new) /\ \A t, u \in new : t = u
       /\ \A t \in new : RequestInv(t) /\ t.view = r.view /\ (t.live => r.live)
  BY <1>2, <1>11, <1>12 DEF new
<1> QED BY <1>2, <1>10, <1>13, BecomeInv

\* The revisions, when what comes before has been read and what the tag is to
\* vouch for has not.
LEMMA ReadRevisionsInv == ASSUME Inv, NEW r \in requests, ReadRevisions(r) PROVE Inv'
<1> DEFINE v == r.view
           tag == Tag(v, r.body)
           status == IF r.inm = tag THEN "same" ELSE IF Late[v] = <<>> THEN "ok" ELSE r.status
           s == [r EXCEPT !.next = @ + 1, !.tag = tag,
                          !.status = IF r.inm = tag THEN "same"
                                     ELSE IF Late[v] = <<>> THEN "ok" ELSE @]
<1>1. RequestInv(r) /\ RequestTypes(r) /\ v \in views /\ v \in Views /\ StoreInv
  BY DEF Inv, StoreInv, RequestsInv, RequestInv, RequestTypes
<1>2. /\ r.status = "reading" /\ r.next = EarlyLen(v) + 1 /\ Become(r, {s})
      /\ UNCHANGED <<store, views, data, cache, poll, seen, visible, faults>>
  BY DEF ReadRevisions, EarlyLen
<1>3. /\ EarlyLen(v) \in Nat /\ LateLen(v) \in Nat
      /\ r.body \in [Parts -> Nat \cup {None}]
      /\ \A i \in 1 .. EarlyLen(v) : \A p \in Early[v][i] : r.body[p] # None
      /\ \A p \in PartsOf(Late[v]) : r.body[p] = None
  BY <1>1, <1>2, HandlerReads DEF RequestInv, RequestTypes, Bodies
<1>4. ASSUME v \in Payload PROVE \A p \in Shown(v) : r.body[p] # None
  <2>1. PartsOf(Late[v]) = {} BY <1>1, <1>4, HandlerReads
  <2>2. Shown(v) = UNION {Early[v][i] : i \in 1 .. EarlyLen(v)}
    BY <1>1, <2>1, HandlerReads DEF Shown
  <2> QED BY <1>3, <2>2
<1>5. ASSUME v \notin Payload PROVE \A p \in Covered(v) : r.body[p] \in {content[p], None}
  BY <1>1, <1>3, <1>5, TagFacts
<1>6. Vouched(v, tag, r.body) BY <1>1, <1>3, <1>4, <1>5, NowVouched
<1>7. s = [view |-> v, live |-> r.live, tries |-> r.tries, inm |-> r.inm, tag |-> tag,
           body |-> r.body, next |-> r.next + 1, status |-> status]
  <2> DEFINE next == r.next + 1
  <2>1. s = [r EXCEPT !.next = next, !.tag = tag, !.status = status] OBVIOUS
  <2> HIDE DEF next, s, v, tag, status
  <2>2. s = [view |-> r.view, live |-> r.live, tries |-> r.tries, inm |-> r.inm,
             tag |-> tag, body |-> r.body, next |-> next, status |-> status]
    BY <1>1, <2>1, ReadsOn
  <2> QED BY <2>2 DEF next, v
<1>8. status \in {"reading", "same", "ok"} BY <1>2
<1> HIDE DEF s, status, tag, v
<1>9. /\ s.view = v /\ s.live = r.live /\ s.tries = r.tries /\ s.inm = r.inm
      /\ s.tag = tag /\ s.body = r.body /\ s.next = r.next + 1 /\ s.status = status
  BY <1>7
<1>10. RequestTypes(s)
  <2>1. s.next \in 1 .. EarlyLen(v) + LateLen(v) + 2 BY <1>2, <1>3, <1>9
  <2> QED BY <1>1, <1>3, <1>7, <1>8, <1>9, <2>1 DEF RequestTypes, v, Bodies
<1>11. RequestInv(s)
  <2>1. ~(s.next <= EarlyLen(v) + 1) BY <1>2, <1>3, <1>9
  <2> QED BY <1>6, <1>9, <1>10, <2>1 DEF RequestInv
<1>12. CacheInv' /\ PageInv' BY <1>2, SameCache, SamePage
<1> DEFINE new == {s}
<1>13. /\ Become(r, new) /\ \A t, u \in new : t = u
       /\ \A t \in new : RequestInv(t) /\ t.view = r.view /\ (t.live => r.live)
  BY <1>2, <1>9, <1>11 DEF v
<1> HIDE DEF new
<1> QED BY <1>2, <1>12, <1>13, BecomeInv

\* A query after the ETag.
LEMMA ReadLateInv == ASSUME Inv, NEW r \in requests, ReadLate(r) PROVE Inv'
<1> DEFINE v == r.view
           i == r.next - EarlyLen(v) - 1
           parts == Late[v][i]
           body == [p \in Parts |-> IF p \in parts THEN content[p] ELSE r.body[p]]
           status == IF i = LateLen(v) THEN "ok" ELSE r.status
           s == [ReadParts(r, parts) EXCEPT !.status = IF i = LateLen(v) THEN "ok" ELSE @]
<1>1. RequestInv(r) /\ RequestTypes(r) /\ v \in views /\ v \in Views /\ StoreInv
  BY DEF Inv, StoreInv, RequestsInv, RequestInv, RequestTypes
<1>2. /\ r.status = "reading" /\ i \in 1 .. LateLen(v) /\ Become(r, {s})
      /\ UNCHANGED <<store, views, data, cache, poll, seen, visible, faults>>
  BY DEF ReadLate, EarlyLen, LateLen
<1>3. /\ EarlyLen(v) \in Nat /\ LateLen(v) \in Nat /\ r.next \in Nat
      /\ r.body \in [Parts -> Nat \cup {None}]
      /\ r.next > EarlyLen(v) + 1 /\ Vouched(v, r.tag, r.body) /\ v \notin Payload
  <2>1. EarlyLen(v) \in Nat /\ LateLen(v) \in Nat BY <1>1, HandlerReads
  <2>2. r.next \in Nat /\ r.body \in [Parts -> Nat \cup {None}]
    BY <1>1, <2>1 DEF RequestTypes, Bodies
  <2>3. r.next > EarlyLen(v) + 1 BY <1>2, <2>1, <2>2
  <2>4. Vouched(v, r.tag, r.body) BY <1>1, <2>3 DEF RequestInv
  <2>5. LateLen(v) # 0 BY <1>2, <2>1
  <2>6. v \notin Payload BY <1>1, <2>5, HandlerReads
  <2> QED BY <2>1, <2>2, <2>3, <2>4, <2>6
<1>4. /\ body \in [Parts -> Nat \cup {None}]
      /\ \A p \in Parts : body[p] = IF p \in parts THEN content[p] ELSE r.body[p]
  BY <1>1, <1>3 DEF StoreInv
<1>5. status \in {"reading", "same", "ok"} BY <1>2
<1>6. s = [view |-> v, live |-> r.live, tries |-> r.tries, inm |-> r.inm, tag |-> r.tag,
           body |-> body, next |-> r.next + 1, status |-> status]
  <2> DEFINE next == r.next + 1
             read == ReadParts(r, parts)
  <2>1. read = [r EXCEPT !.next = next, !.body = body] BY DEF ReadParts
  <2> HIDE DEF next, body, v, i, read
  <2>2. read = [view |-> r.view, live |-> r.live, tries |-> r.tries, inm |-> r.inm,
                tag |-> r.tag, body |-> body, next |-> next, status |-> r.status]
    BY <1>1, <2>1, ReadsOn
  <2>3. s = [read EXCEPT !.status = status]
    <3>1. read.status = r.status BY <2>2
    <3> QED BY <3>1 DEF read
  <2> HIDE DEF status, s
  <2>4. [read EXCEPT !.status = status] =
            [view |-> r.view, live |-> r.live, tries |-> r.tries, inm |-> r.inm,
             tag |-> r.tag, body |-> body, next |-> next, status |-> status]
    <3> DEFINE view == r.view
               live == r.live
               tries == r.tries
               inm == r.inm
               tag == r.tag
               status0 == r.status
    <3>1. read = [view |-> view, live |-> live, tries |-> tries, inm |-> inm, tag |-> tag,
                  body |-> body, next |-> next, status |-> status0]
      BY <2>2
    <3> HIDE DEF view, live, tries, inm, tag, status0
    <3>2. [read EXCEPT !.status = status] =
            [view |-> view, live |-> live, tries |-> tries, inm |-> inm, tag |-> tag,
             body |-> body, next |-> next, status |-> status]
      BY <3>1
    <3> QED BY <3>2 DEF view, live, tries, inm, tag
  <2> QED BY <2>3, <2>4 DEF next, v
<1>7. Vouched(v, r.tag, body)
  <2>1. TagVouches(v, r.tag, body)
    <3> SUFFICES ASSUME r.tag = Tag(v, content), NEW p \in Covered(v)
                 PROVE  body[p] \in {content[p], None}
      BY DEF TagVouches
    <3>1. p \in Parts BY <1>1, TagFacts
    <3>2. r.body[p] \in {content[p], None} BY <1>3 DEF Vouched, TagVouches
    <3> HIDE DEF body, parts
    <3> QED BY <1>4, <3>1, <3>2
  <2> HIDE DEF body, v
  <2> QED BY <1>3, <2>1 DEF Vouched
<1> HIDE DEF s, status, body, parts
<1>8. /\ s.view = v /\ s.live = r.live /\ s.tries = r.tries /\ s.inm = r.inm
      /\ s.tag = r.tag /\ s.body = body /\ s.next = r.next + 1 /\ s.status = status
  <2> HIDE DEF v
  <2> QED BY <1>6
<1>9. s.next \in 1 .. EarlyLen(v) + LateLen(v) + 2 /\ s.next > EarlyLen(v) + 1
  <2>1. s.next = i + EarlyLen(v) + 2 BY <1>3, <1>8
  <2>2. i \in 1 .. LateLen(v) BY <1>2
  <2> HIDE DEF i, v
  <2> QED BY <1>3, <2>1, <2>2
<1> HIDE DEF i, v
<1>10. RequestTypes(s) BY <1>1, <1>4, <1>5, <1>6, <1>8, <1>9 DEF RequestTypes, v, Bodies
<1>11. RequestInv(s)
  <2>1. ~(s.next <= EarlyLen(v) + 1) BY <1>3, <1>9, <1>8
  <2> QED BY <1>7, <1>8, <1>10, <2>1 DEF RequestInv
<1>12. CacheInv' /\ PageInv' BY <1>2, SameCache, SamePage
<1> DEFINE new == {s}
<1>13. /\ Become(r, new) /\ \A t, u \in new : t = u
       /\ \A t \in new : RequestInv(t) /\ t.view = r.view /\ (t.live => r.live)
  BY <1>2, <1>8, <1>11 DEF v
<1> HIDE DEF new
<1> QED BY <1>2, <1>12, <1>13, BecomeInv

\* An answer that has an ETag, of which the client keeps the response.
LEMMA ReceiveInv == ASSUME Inv, NEW r \in requests, Receive(r) PROVE Inv'
<1> DEFINE v == r.view
           response == [tag |-> r.tag, body |-> r.body]
<1>1. RequestInv(r) /\ RequestTypes(r) /\ v \in views /\ v \in Views
  BY DEF Inv, StoreInv, RequestsInv, RequestInv, RequestTypes
<1>2. /\ r.status = "ok" /\ Become(r, {})
      /\ cache' = [cache EXCEPT ![v] = response]
      /\ data' = IF r.live THEN [data EXCEPT ![v] = r.body] ELSE data
      /\ UNCHANGED <<store, views, poll, seen, visible, faults>>
  BY DEF Receive
<1>3. Vouched(v, r.tag, r.body)
  <2>1. r.next > EarlyLen(v) + 1
    <3>1. r.next \in Nat /\ EarlyLen(v) \in Nat BY <1>1, HandlerReads DEF RequestTypes
    <3>2. ~(r.next <= EarlyLen(v) + 1) BY <1>1, <1>2 DEF RequestInv
    <3> QED BY <3>1, <3>2
  <2> QED BY <1>1, <2>1 DEF RequestInv
<1>4. response \in Responses(v) /\ response.tag = r.tag /\ response.body = r.body
  BY <1>1, <1>3 DEF Vouched, RequestTypes, Responses
<1> HIDE DEF response, v
<1>5. \A w \in views : cache'[w] = IF w = v THEN response ELSE cache[w]
  BY <1>1, <1>2 DEF Inv, CacheInv
<1>6. CacheInv'
  <2>1. cache' = [w \in views |-> cache'[w]]
    <3>1. cache = [w \in views |-> cache[w]] BY DEF Inv, CacheInv
    <3> QED BY <1>1, <1>2, <3>1
  <2>2. ASSUME NEW w \in views, cache'[w] # None
        PROVE  cache'[w] \in Responses(w) /\ Vouched(w, cache'[w].tag, cache'[w].body)
    <3>1. CASE w = v BY <1>3, <1>4, <1>5, <3>1
    <3>2. CASE w # v
      <4>1. cache'[w] = cache[w] BY <1>5, <3>2
      <4>2. cache[w] \in Responses(w) /\ Vouched(w, cache[w].tag, cache[w].body)
        BY <2>2, <4>1 DEF Inv, CacheInv
      <4> QED BY <4>1, <4>2
    <3> QED BY <3>1, <3>2
  <2>3. ASSUME NEW w \in views, NEW tag, NEW body, Vouched(w, tag, body)
        PROVE  Vouched(w, tag, body)'
    BY <1>2, <2>3 DEF store, Vouched, Past, TagVouches, Tag
  <2> QED BY <1>2, <2>1, <2>2, <2>3 DEF CacheInv
<1>7. PageInv'
  <2>1. r.body \in Bodies BY <1>1 DEF RequestTypes
  <2>2. data = [w \in views |-> data[w]] /\ \A w \in views : data[w] \in Bodies \cup {None}
    BY DEF Inv, PageInv
  <2>3. data' = [w \in views |-> data'[w]] /\ \A w \in views : data'[w] \in Bodies \cup {None}
    <3>1. CASE r.live BY <1>1, <1>2, <2>1, <2>2, <3>1
    <3>2. CASE ~r.live BY <1>2, <2>2, <3>2
    <3> QED BY <3>1, <3>2
  <2> QED BY <1>2, <2>3 DEF Inv, PageInv
<1> DEFINE new == {}
<1>8. /\ Become(r, new) /\ \A t, u \in new : t = u
      /\ \A t \in new : RequestInv(t) /\ t.view = r.view /\ (t.live => r.live)
  BY <1>2
<1> HIDE DEF new
<1> QED BY <1>2, <1>6, <1>7, <1>8, BecomeInv

\* A request is tried again while somebody awaits it.
LEMMA RetryInv ==
    ASSUME Inv, UNCHANGED <<store, views>>, CacheInv', PageInv', NEW r \in requests, Retry(r)
    PROVE  Inv'
<1> DEFINE new == IF r.live /\ r.tries < 2 THEN {[New(r.view) EXCEPT !.tries = r.tries + 1]}
                  ELSE {}
<1>1. r.view \in views /\ r.tries \in 0 .. 2
  BY DEF Inv, RequestsInv, RequestInv, RequestTypes
<1>2. Become(r, new) BY DEF Retry
<1>3. \A s, t \in new : s = t OBVIOUS
<1>4. ASSUME NEW s \in new PROVE RequestInv(s) /\ s.view = r.view /\ (s.live => r.live)
  <2> DEFINE n == r.tries + 1
             v == r.view
  <2>1. r.live /\ n \in 0 .. 2 /\ s = [New(v) EXCEPT !.tries = n] BY <1>1, <1>4
  <2> HIDE DEF n, v
  <2>2. v \in views BY <1>1 DEF v
  <2>3. RequestInv([New(v) EXCEPT !.tries = n]) /\ [New(v) EXCEPT !.tries = n].view = v
    BY <2>1, <2>2, Asked
  <2> QED BY <2>1, <2>3 DEF v
<1> HIDE DEF new
<1> QED BY <1>2, <1>3, <1>4, BecomeInv

\* A 304.
LEMMA ReceiveNotModifiedInv ==
    ASSUME Inv, NEW r \in requests, ReceiveNotModified(r) PROVE Inv'
<1>1. /\ r.view \in views
      /\ data = [w \in views |-> data[w]] /\ \A w \in views : data[w] \in Bodies \cup {None}
  BY DEF Inv, PageInv, RequestsInv, RequestInv, RequestTypes
<1>2. UNCHANGED <<store, views, cache, poll, seen, visible, faults>> BY DEF ReceiveNotModified
<1>3. CacheInv' BY <1>2, SameCache
<1>4. CASE cache[r.view] # None /\ Become(r, {})
           /\ data' = IF r.live THEN [data EXCEPT ![r.view] = cache[r.view].body] ELSE data
  <2>1. cache[r.view].body \in Bodies BY <1>1, <1>4 DEF Inv, CacheInv, Responses
  <2>2. data' = [w \in views |-> data'[w]] /\ \A w \in views : data'[w] \in Bodies \cup {None}
    <3>1. CASE r.live BY <1>1, <1>4, <2>1, <3>1
    <3>2. CASE ~r.live BY <1>1, <1>4, <3>2
    <3> QED BY <3>1, <3>2
  <2>3. PageInv' BY <1>2, <2>2 DEF Inv, PageInv
  <2> DEFINE new == {}
  <2>4. /\ Become(r, new) /\ \A t, u \in new : t = u
        /\ \A t \in new : RequestInv(t) /\ t.view = r.view /\ (t.live => r.live)
    BY <1>4
  <2> HIDE DEF new
  <2> QED BY <1>2, <1>3, <2>3, <2>4, BecomeInv
<1>5. CASE Retry(r) /\ UNCHANGED data
  <2>1. PageInv' BY <1>2, <1>5, SamePage
  <2> QED BY <1>2, <1>3, <1>5, <2>1, RetryInv
<1> QED BY <1>4, <1>5 DEF ReceiveNotModified

LEMMA FailInv == ASSUME Inv, NEW r \in requests, Fail(r) PROVE Inv'
<1>1. Retry(r) /\ UNCHANGED <<store, views, data, cache, poll, seen, visible>> BY DEF Fail
<1>2. CacheInv' /\ PageInv' BY <1>1, SameCache, SamePage
<1> QED BY <1>1, <1>2, RetryInv

LEMMA EvictInv == ASSUME Inv, NEW v \in views, Evict(v) PROVE Inv'
<1>1. /\ cache' = [cache EXCEPT ![v] = None]
      /\ UNCHANGED <<store, views, data, requests, poll, seen, visible>>
  BY DEF Evict
<1>2. cache = [w \in views |-> cache[w]] BY DEF Inv, CacheInv
<1>3. cache' = [w \in views |-> cache'[w]] BY <1>1, <1>2
<1>4. ASSUME NEW w \in views, cache'[w] # None
      PROVE  cache'[w] \in Responses(w) /\ Vouched(w, cache'[w].tag, cache'[w].body)
  <2>1. cache'[w] = cache[w] BY <1>1, <1>2, <1>4
  <2>2. cache[w] \in Responses(w) /\ Vouched(w, cache[w].tag, cache[w].body)
    BY <1>4, <2>1 DEF Inv, CacheInv
  <2> QED BY <2>1, <2>2
<1>5. ASSUME NEW w \in views, NEW tag, NEW body, Vouched(w, tag, body)
      PROVE  Vouched(w, tag, body)'
  BY <1>1, <1>5 DEF store, Vouched, Past, TagVouches, Tag
<1>6. CacheInv' BY <1>1, <1>3, <1>4, <1>5 DEF CacheInv
<1>7. PageInv' BY <1>1, SamePage
<1>8. \A w \in views : \A s, t \in requests :
         s.view = w /\ s.live /\ t.view = w /\ t.live => s = t
  BY DEF Inv, RequestsInv, Awaited
<1> QED BY <1>1, <1>6, <1>7, <1>8, PageStep

-----------------------------------------------------------------------------
(* Polling                                                                 *)

LEMMA RefetchesOne ==
    ASSUME Inv, NEW v \in views, NEW times
    PROVE  /\ \A r \in Refetches(v, times) : RequestInv(r) /\ r.view = v
           /\ \A r, s \in Refetches(v, times) : r.live /\ s.live => r = s
<1>1. \A r \in Awaited(v) : RequestInv(r) /\ r.view = v
  BY DEF Inv, RequestsInv, Awaited
<1>2. \A r, s \in Awaited(v) : r = s BY DEF Inv, RequestsInv
<1>3. \A r \in Cancelled(v) : RequestInv(r) /\ r.view = v /\ r.live = FALSE
  <2> SUFFICES ASSUME NEW r \in Cancelled(v) PROVE RequestInv(r) /\ r.view = v /\ r.live = FALSE
    OBVIOUS
  <2>1. PICK s \in Awaited(v) : r = [s EXCEPT !.live = FALSE] BY DEF Cancelled
  <2>2. s \in requests /\ s.view = v BY DEF Awaited
  <2> QED BY <2>1, <2>2, Unawaited
<1>4. CASE times = 0 BY <1>1, <1>2, <1>4 DEF Refetches
<1>5. CASE times # 0 /\ data[v] = None
  <2>1. CASE Awaited(v) = {}
    <3>1. Refetches(v, times) = {New(v)} BY <1>5, <2>1 DEF Refetches
    <3> QED BY <3>1, Asked
  <2>2. CASE Awaited(v) # {}
    <3>1. Refetches(v, times) = Awaited(v) BY <1>5, <2>2 DEF Refetches
    <3> QED BY <1>1, <1>2, <3>1
  <2> QED BY <2>1, <2>2
<1>6. CASE times # 0 /\ data[v] # None
  <2> DEFINE fresh == New(v)
             second == [New(v) EXCEPT !.live = FALSE]
  <2>1. Refetches(v, times) \subseteq Cancelled(v) \cup {fresh} \cup {second}
    BY <1>6 DEF Refetches
  <2>2. /\ RequestInv(fresh) /\ fresh.view = v
        /\ RequestInv(second) /\ second.view = v /\ second.live = FALSE
    BY Asked
  <2> HIDE DEF fresh, second
  <2> QED BY <1>3, <2>1, <2>2
<1> QED BY <1>4, <1>5, <1>6

LEMMA PollReadInv == ASSUME Inv, PollRead PROVE Inv'
<1>1. /\ poll' = [gen |-> gen, rev |-> rev]
      /\ UNCHANGED <<store, views, data, cache, requests, seen, visible, faults>>
  BY DEF PollRead
<1>2. poll' \in Revs BY <1>1 DEF Inv, StoreInv, Revs
<1>3. CacheInv' BY <1>1, SameCache
<1>4. PageInv' BY <1>1, <1>2 DEF Inv, PageInv
<1>5. \A v \in views : \A r, s \in requests :
         r.view = v /\ r.live /\ s.view = v /\ s.live => r = s
  BY DEF Inv, RequestsInv, Awaited
<1> QED BY <1>1, <1>3, <1>4, <1>5, PageStep

LEMMA PollDeliverInv == ASSUME Inv, PollDeliver PROVE Inv'
<1> DEFINE dead == {r \in requests : ~r.live}
           asked(v) == Refetches(v, Invalidations(v, poll))
<1>1. /\ requests' = dead \cup UNION {asked(v) : v \in views}
      /\ seen' = poll /\ poll' = None
      /\ UNCHANGED <<store, views, data, cache, visible, faults>>
  BY DEF PollDeliver
<1>2. \A v \in views : /\ \A r \in asked(v) : RequestInv(r) /\ r.view = v
                       /\ \A r, s \in asked(v) : r.live /\ s.live => r = s
  BY RefetchesOne
<1>3. CacheInv' BY <1>1, SameCache
<1>4. PageInv' BY <1>1 DEF Inv, PageInv
<1> HIDE DEF asked
<1>5. \A r \in requests' : r \in requests \/ RequestInv(r) BY <1>1, <1>2
<1>6. \A v \in views : \A r \in requests' : r.view = v /\ r.live => r \in asked(v)
  BY <1>1, <1>2
<1>7. \A v \in views : \A r, s \in requests' :
         r.view = v /\ r.live /\ s.view = v /\ s.live => r = s
  BY <1>2, <1>6
<1> QED BY <1>1, <1>3, <1>4, <1>5, <1>7, PageStep

LEMMA PollLostInv == ASSUME Inv, PollLost PROVE Inv'
<1>1. poll' = None /\ UNCHANGED <<store, views, data, cache, requests, seen, visible>>
  BY DEF PollLost
<1>2. CacheInv' BY <1>1, SameCache
<1>3. PageInv' BY <1>1 DEF Inv, PageInv
<1>4. \A v \in views : \A r, s \in requests :
         r.view = v /\ r.live /\ s.view = v /\ s.live => r = s
  BY DEF Inv, RequestsInv, Awaited
<1> QED BY <1>1, <1>2, <1>3, <1>4, PageStep

LEMMA HideInv == ASSUME Inv, Hide PROVE Inv'
<1>1. visible' = FALSE /\ UNCHANGED <<store, views, data, cache, requests, poll, seen, faults>>
  BY DEF Hide
<1>2. CacheInv' BY <1>1, SameCache
<1>3. PageInv' BY <1>1 DEF Inv, PageInv
<1>4. \A v \in views : \A r, s \in requests :
         r.view = v /\ r.live /\ s.view = v /\ s.live => r = s
  BY DEF Inv, RequestsInv, Awaited
<1> QED BY <1>1, <1>2, <1>3, <1>4, PageStep

LEMMA ShowInv == ASSUME Inv, NEW stale \in SUBSET views, Show(stale) PROVE Inv'
<1> DEFINE asked == {New(v) : v \in {w \in stale : Awaited(w) = {}}}
<1>1. /\ visible' = TRUE /\ requests' = requests \cup asked
      /\ UNCHANGED <<store, views, data, cache, poll, seen, faults>>
  BY DEF Show
<1>2. CacheInv' BY <1>1, SameCache
<1>3. PageInv' BY <1>1 DEF Inv, PageInv
<1>4. ASSUME NEW r \in asked
      PROVE  /\ r.view \in views /\ r = New(r.view) /\ RequestInv(r)
             /\ Awaited(r.view) = {}
  <2>1. PICK v \in stale : Awaited(v) = {} /\ r = New(v) BY <1>4
  <2>2. v \in views BY <2>1
  <2>3. RequestInv(New(v)) /\ New(v).view = v BY <2>2, Asked
  <2> QED BY <2>1, <2>2, <2>3
<1>5. \A v \in views : \A r, s \in requests :
         r.view = v /\ r.live /\ s.view = v /\ s.live => r = s
  BY DEF Inv, RequestsInv, Awaited
<1> HIDE DEF asked
<1>6. ASSUME NEW v \in views, NEW r \in requests', NEW s \in requests',
             r.view = v, r.live, s.view = v, s.live
      PROVE  r = s
  <2>1. CASE r \in requests /\ s \in requests BY <1>5, <1>6, <2>1
  <2>2. CASE r \in asked /\ s \in asked BY <1>4, <1>6, <2>2
  <2>3. CASE r \in asked /\ s \in requests
    <3>1. s \in Awaited(v) /\ Awaited(v) = {} BY <1>4, <1>6, <2>3 DEF Awaited
    <3> QED BY <3>1
  <2>4. CASE r \in requests /\ s \in asked
    <3>1. r \in Awaited(v) /\ Awaited(v) = {} BY <1>4, <1>6, <2>4 DEF Awaited
    <3> QED BY <3>1
  <2> QED BY <1>1, <2>1, <2>2, <2>3, <2>4
<1>7. \A r \in requests' : r \in requests \/ RequestInv(r) BY <1>1, <1>4
<1> QED BY <1>1, <1>2, <1>3, <1>6, <1>7, PageStep

LEMMA NextInv == Inv /\ [Next]_vars => Inv'
<1> SUFFICES ASSUME Inv, [Next]_vars PROVE Inv'
  OBVIOUS
<1>1. CASE Transaction BY <1>1, TransactionInv
<1>2. CASE Answer
  BY <1>2, ReadEarlyInv, ReadRevisionsInv, ReadLateInv, ReceiveInv, ReceiveNotModifiedInv
     DEF Answer
<1>3. CASE \E r \in requests : Fail(r) BY <1>3, FailInv
<1>4. CASE \E v \in views : Evict(v) BY <1>4, EvictInv
<1>5. CASE PollRead BY <1>5, PollReadInv
<1>6. CASE PollDeliver BY <1>6, PollDeliverInv
<1>7. CASE PollLost BY <1>7, PollLostInv
<1>8. CASE Hide BY <1>8, HideInv
<1>9. CASE \E stale \in SUBSET views : Show(stale) BY <1>9, ShowInv
<1>10. CASE UNCHANGED vars
  <2>1. UNCHANGED <<store, views, data, cache, requests, poll, seen, visible>>
    BY <1>10 DEF vars, page
  <2>2. CacheInv' /\ PageInv' BY <2>1, SameCache, SamePage
  <2>3. \A v \in views : \A r, s \in requests :
           r.view = v /\ r.live /\ s.view = v /\ s.live => r = s
    BY DEF Inv, RequestsInv, Awaited
  <2> QED BY <2>1, <2>2, <2>3, PageStep
<1> QED BY <1>1, <1>2, <1>3, <1>4, <1>5, <1>6, <1>7, <1>8, <1>9, <1>10 DEF Next

-----------------------------------------------------------------------------
LEMMA StoreStarts ==
    ASSUME content = [p \in Parts |-> 0], rev = [r \in Resources |-> 0], gen = 0, writes = 0,
           views \in Pages
    PROVE  StoreInv
<1>1. content \in [Parts -> Nat] OBVIOUS
<1>2. rev \in [Resources -> Nat] OBVIOUS
<1>3. views \subseteq Views BY PagesAssumption
<1> QED BY <1>1, <1>2, <1>3 DEF StoreInv

\* A page that has just been opened.
LEMMA InitInv == Init => Inv
<1> SUFFICES ASSUME Init PROVE Inv
  OBVIOUS
<1>1. StoreInv BY StoreStarts DEF Init
<1>2. CacheInv BY DEF Init, CacheInv
<1>3. PageInv BY DEF Init, PageInv
<1>4. ASSUME NEW v \in views PROVE RequestInv(New(v)) /\ New(v).view = v
  <2> DEFINE r == New(v)
  <2>1. r = [view |-> v, live |-> TRUE, tries |-> 0, inm |-> None, tag |-> None,
             body |-> NoBody, next |-> 1, status |-> "reading"]
    BY DEF New, Init
  <2> HIDE DEF r
  <2>2. /\ r.view = v /\ r.live = TRUE /\ r.tries = 0 /\ r.inm = None /\ r.tag = None
        /\ r.body = NoBody /\ r.next = 1 /\ r.status = "reading"
    BY <2>1
  <2>3. v \in Views /\ EarlyLen(v) \in Nat /\ LateLen(v) \in Nat
    BY <1>1, HandlerReads DEF StoreInv
  <2>4. NoBody \in Bodies /\ \A p \in Parts : NoBody[p] = None BY DEF NoBody, Bodies
  <2>5. r.next \in 1 .. EarlyLen(v) + LateLen(v) + 2 BY <2>2, <2>3
  <2>6. RequestTypes(r) BY <2>1, <2>2, <2>4, <2>5 DEF RequestTypes
  <2>7. ~(r.next > EarlyLen(v) + 1) BY <2>2, <2>3
  <2>8. PartsOf(Late[v]) \subseteq Parts BY <2>3, TagFacts DEF Shown
  <2>9. \A i \in 1 .. r.next - 1 : FALSE BY <2>2
  <2> QED BY <2>2, <2>4, <2>6, <2>7, <2>8, <2>9 DEF RequestInv, r
<1>5. RequestsInv BY <1>4 DEF Init, RequestsInv, Awaited
<1> QED BY <1>1, <1>2, <1>3, <1>5 DEF Inv

\* A page that has loaded.
LEMMA LoadedInv == Loaded => Inv
<1> SUFFICES ASSUME Loaded PROVE Inv
  OBVIOUS
<1>1. StoreInv BY StoreStarts DEF Loaded
<1>2. \A v \in views : /\ data[v] \in [Parts -> Nat \cup {None}]
                       /\ \A p \in Parts : data[v][p] = IF p \in Shown(v) THEN 0 ELSE None
  BY DEF Loaded
<1>3. ASSUME NEW v \in views
      PROVE  /\ cache[v].tag = Tag(v, content) /\ cache[v].body = data[v]
             /\ cache[v] \in Responses(v) /\ Vouched(v, cache[v].tag, cache[v].body)
  <2> DEFINE tag == Tag(v, content)
             body == data[v]
  <2>1. cache[v] = [tag |-> tag, body |-> body] BY DEF Loaded
  <2>2. v \in Views BY <1>1 DEF StoreInv
  <2>3. content \in [Parts -> Nat \cup {None}] BY <1>1 DEF StoreInv
  <2>4. \A p \in Shown(v) : body[p] = 0 /\ content[p] = 0 /\ 0 # None
    BY <1>2, <2>2, TagFacts, NoneAssumption DEF Loaded
  <2>5. tag = Tag(v, body)
    <3>1. payloadETag(v, content) = payloadETag(v, body)
      BY <2>4 DEF payloadETag
    <3> QED BY <3>1 DEF Tag
  <2>6. Vouched(v, Tag(v, body), body)
    <3>1. \A p \in Shown(v) : body[p] # None BY <2>4
    <3>2. \A p \in Covered(v) : body[p] \in {content[p], None} BY <2>2, <2>4, TagFacts
    <3>3. body \in [Parts -> Nat \cup {None}] BY <1>2
    <3> HIDE DEF body
    <3> QED BY <1>1, <2>2, <3>1, <3>2, <3>3, NowVouched
  <2>7. tag \in Tags(v) BY <2>5, <2>6 DEF Vouched
  <2>8. body \in Bodies BY <1>2 DEF Bodies
  <2> HIDE DEF tag, body
  <2>9. cache[v].tag = tag /\ cache[v].body = body BY <2>1
  <2>10. cache[v] \in Responses(v) BY <2>1, <2>7, <2>8 DEF Responses
  <2>11. Vouched(v, tag, body) BY <2>5, <2>6
  <2> QED BY <2>9, <2>10, <2>11 DEF tag, body
<1>4. CacheInv
  <2>1. cache = [v \in views |-> cache[v]] BY DEF Loaded
  <2> QED BY <1>3, <2>1 DEF CacheInv
<1>5. PageInv
  <2>1. data = [v \in views |-> data[v]] BY DEF Loaded
  <2>2. seen \in Revs BY <1>1 DEF Loaded, StoreInv, Revs
  <2> QED BY <1>2, <2>1, <2>2 DEF Loaded, PageInv, Bodies
<1>6. RequestsInv BY DEF Loaded, RequestsInv, Awaited
<1> QED BY <1>1, <1>4, <1>5, <1>6 DEF Inv

LEMMA InvDescribes == Inv => ETagDescribesBody
<1> SUFFICES ASSUME Inv PROVE ETagDescribesBody
  OBVIOUS
<1>1. ASSUME NEW v \in views
      PROVE  /\ data[v] \in Bodies \cup {None}
             /\ cache[v] \in Responses(v) \cup {None}
             /\ cache[v] # None => TagVouches(v, cache[v].tag, cache[v].body)
  BY DEF Inv, PageInv, CacheInv, Vouched
<1>2. ASSUME NEW r \in requests
      PROVE  /\ RequestTypes(r) /\ r.view \in views /\ r.tag \in Tags(r.view) \cup {None}
             /\ TagVouches(r.view, r.tag, r.body)
  <2>1. /\ RequestInv(r) /\ RequestTypes(r) /\ r.view \in views /\ r.view \in Views
        /\ StoreInv
    BY DEF Inv, StoreInv, RequestsInv, RequestInv, RequestTypes
  <2>2. EarlyLen(r.view) \in Nat /\ r.next \in Nat
    BY <2>1, HandlerReads DEF RequestTypes
  <2>3. CASE r.next > EarlyLen(r.view) + 1
    BY <2>1, <2>3 DEF RequestInv, Vouched
  <2>4. CASE r.next <= EarlyLen(r.view) + 1
    <3>1. r.tag = None BY <2>1, <2>4 DEF RequestInv
    <3>2. Tag(r.view, content) \in Tags(r.view)
      <4> DEFINE v == r.view
      <4>1. v \in Views BY <2>1
      <4>2. \A p \in Shown(v) : content[p] \in Nat BY <4>1, <2>1, TagFacts DEF StoreInv
      <4>3. \A p \in Shown(v) : content[p] # None BY <4>2, NoneAssumption
      <4>4. content \in [Parts -> Nat \cup {None}] BY <2>1 DEF StoreInv
      <4> HIDE DEF v
      <4>5. Tag(v, content) \in Tags(v) BY <2>1, <4>1, <4>3, <4>4, TagType
      <4> QED BY <4>5 DEF v
    <3>3. None \notin Tags(r.view) BY <2>1, NoneAssumption
    <3> QED BY <2>1, <3>1, <3>2, <3>3 DEF TagVouches
  <2> QED BY <2>1, <2>2, <2>3, <2>4
<1>3. TypeOK
  <2>1. \A v \in views : \A r, s \in Awaited(v) : r = s BY DEF Inv, RequestsInv
  <2>2. ASSUME NEW r \in requests
        PROVE  /\ r.view \in views /\ r.live \in BOOLEAN /\ r.tries \in 0 .. 2
               /\ r.inm \in Tags(r.view) \cup {None} /\ r.tag \in Tags(r.view) \cup {None}
               /\ r.body \in Bodies /\ r.status \in {"reading", "same", "ok"}
               /\ r.next \in 1 .. Len(Early[r.view]) + Len(Late[r.view]) + 2
    BY <1>2 DEF RequestTypes, EarlyLen, LateLen
  <2> QED BY <1>1, <2>1, <2>2 DEF TypeOK, Inv, StoreInv, PageInv
<1> QED BY <1>1, <1>2, <1>3 DEF ETagDescribesBody

\* ETags do not lie, to a page that opens or has loaded: a response that is
\* cached or under way and has the current ETag of its view has the current
\* value of every part the ETag covers, so that a 304 Not Modified never
\* leaves one of them stale (tasks.go, projects.go:200, git.go:30).
THEOREM TagsDoNotLie == Spec \/ LoadedSpec => []ETagDescribesBody
<1>1. Inv /\ [Next]_vars => Inv' BY NextInv
<1>2. Init => Inv BY InitInv
<1>3. Loaded => Inv BY LoadedInv
<1>4. Inv => ETagDescribesBody BY InvDescribes
<1> QED BY <1>1, <1>2, <1>3, <1>4, PTL DEF Spec, LoadedSpec

\* No step but a transaction changes the store.
LEMMA StoreStep ==
    Inv /\ [Next]_vars => [gen' = gen => Promised!Publish]_store
<1> SUFFICES ASSUME Inv, [Next]_vars PROVE [gen' = gen => Promised!Publish]_store
  OBVIOUS
<1>1. CASE Transaction
  BY <1>1, TransactionAnnounced, TransactionPromised DEF Inv
<1>2. Transaction \/ UNCHANGED store
  BY DEF Next, vars, Answer, ReadEarly, ReadRevisions, ReadLate, Receive, ReceiveNotModified,
         Fail, Evict, PollRead, PollDeliver, PollLost, Hide, Show
<1> QED BY <1>1, <1>2

\* The store the pages are served from is one RevisionedStore allows, between
\* a registration of the project and its deletion: no part of a page changes
\* unless a revision the page reacts to goes up (snapshot.go:87-135,
\* useProjectPolling.ts:45-75).  CacheAnnounces (StoreProof) says the same of
\* the index cache, by the same table of parts and revisions.
THEOREM StoreAnnounces ==
    Spec \/ LoadedSpec => [][gen' = gen => Promised!Publish]_store
<1>1. Inv /\ [Next]_vars => Inv' BY NextInv
<1>2. Init => Inv BY InitInv
<1>3. Loaded => Inv BY LoadedInv
<1>4. Inv /\ [Next]_vars => [gen' = gen => Promised!Publish]_store BY StoreStep
<1> QED BY <1>1, <1>2, <1>3, <1>4, PTL DEF Spec, LoadedSpec

=============================================================================
