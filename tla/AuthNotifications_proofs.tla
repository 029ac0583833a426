------------------------ MODULE AuthNotifications_proofs ------------------------
(* What holds of AuthNotifications for every number of events, renders, channels, *)
(* templates and changes, and every size of the cache.                            *)
EXTENDS AuthNotifications, SequenceTheorems, TLAPS

Entry == [key : Keys, source : Sources]

\* What the places of a key have ever held.
Held(k) == UNION {shown[Lookup(k)[i]] : i \in 1 .. 3}

FilesOK ==
  /\ files \in [Places -> Sources \cup {NULL}]
  /\ DOMAIN shown = Places
  /\ \A p \in Places : files[p] \in shown[p]

CacheOK ==
  /\ cache \in Seq(Entry)
  /\ CacheBounded
  /\ \A i \in 1 .. Len(cache) : cache[i].source \in Held(cache[i].key)

\* What a call of render relies on at each of its awaits, and what it returns.
LoadingOK(x) ==
  /\ x.pc \in {"access", "readFile"}
  /\ x = Loading(x.key, x.pc, x.place, x.seen)
  /\ x.key \in Keys /\ x.place \in 1 .. 3

RenderedOK(x) ==
  /\ x.pc = "done" /\ x = Rendered(x.key, x.source)
  /\ x.key \in Keys /\ x.source \in (Sources \cap Held(x.key)) \ Broken

ThrownOK(x) == x.pc = "thrown" /\ x = Thrown(x.key) /\ x.key \in Keys

RenderOK(x) == x = Idle \/ LoadingOK(x) \/ RenderedOK(x) \/ ThrownOK(x)

RendersOK ==
  /\ DOMAIN render = Slots
  /\ \A r \in Slots : RenderOK(render[r])

Pcs == {"none", "start", "render", "send", "create", "queue", "report"} \cup Outcome

\* What ResolvedMeansMailed says of one handler.
Settled(e) ==
  \/ handler[e].silent
  \/ mails[e] # NULL /\ (email = "queue" => mails[e].state = "queued")

HandlerOK(e) ==
  /\ At(e, "render") => render[e] # Idle /\ render[e].key = KeyOf(e)
  /\ handler[e].pc \in {"send", "create"} => render[e].pc = "done" /\ render[e].key = KeyOf(e)
  /\ handler[e].pc \notin {"render", "send", "create"} => render[e] = Idle
  /\ handler[e].pc \in {"queue", "report"} => mails[e] # NULL
  /\ At(e, "report") => email # "queue"
  /\ At(e, "resolved") => Settled(e)
  /\ handler[e].pc \notin {"none"} \cup Outcome /\ IsMuted(e) => handler[e].silent

HandlersOK ==
  /\ email \in EmailSetup
  /\ handler \in [Events -> [pc : Pcs, silent : BOOLEAN]]
  /\ \A e \in Events : HandlerOK(e)

MailOK(e) ==
  mails[e] # NULL =>
    \E s \in (Sources \cap Held(KeyOf(e))) \ Broken, state \in MailState :
      mails[e] = Mail(e, s, state)

MailsOK ==
  /\ DOMAIN mails = Events
  /\ \A e \in Events : MailOK(e)

IInv == FilesOK /\ CacheOK /\ RendersOK /\ HandlersOK /\ MailsOK

--------------------------------------------------------------------------------
(* The cache: evict, then set. *)

Unique(c) == \A i, j \in 1 .. Len(c) : c[i].key = c[j].key => i = j

\* Evicting leaves room for one entry, and only entries that were there.
LEMMA EvictMakesRoom ==
  ASSUME NEW c \in Seq(Entry), Len(c) <= MaxCacheSize, Unique(c)
  PROVE  /\ Evict(c) \in Seq(Entry) /\ Len(Evict(c)) < MaxCacheSize /\ Unique(Evict(c))
         /\ \A i \in 1 .. Len(Evict(c)) : \E j \in 1 .. Len(c) : Evict(c)[i] = c[j]
<1> USE CacheAssumption
<1>1. CASE Len(c) < MaxCacheSize
  <2>1. Evict(c) = c
    BY <1>1, LenProperties DEF Evict
  <2> QED BY <1>1, <2>1
<1>2. CASE Len(c) >= MaxCacheSize
  <2>1. Evict(c) = Tail(c) /\ c # << >> /\ Len(c) \in Nat
    BY <1>2, LenProperties, EmptySeq DEF Evict
  <2>2. /\ Tail(c) \in Seq(Entry) /\ Len(Tail(c)) = Len(c) - 1
        /\ \A i \in 1 .. Len(Tail(c)) : Tail(c)[i] = c[i + 1]
    BY <2>1, HeadTailProperties
  <2>3. \A i \in 1 .. Len(Tail(c)) : i + 1 \in 1 .. Len(c)
    BY <2>1, <2>2
  <2>4. Unique(Tail(c))
    BY <2>2, <2>3 DEF Unique
  <2> QED BY <1>2, <2>1, <2>2, <2>3, <2>4
<1> QED BY <1>1, <1>2, LenProperties

\* Setting a key keeps one entry to a key, and adds at most one.
LEMMA SetKeepsUnique ==
  ASSUME NEW c \in Seq(Entry), Unique(c), NEW k \in Keys, NEW s \in Sources
  PROVE  LET d == Set(c, k, s) IN
         /\ d \in Seq(Entry) /\ Len(d) <= Len(c) + 1 /\ Unique(d)
         /\ \A i \in 1 .. Len(d) :
              d[i] = [key |-> k, source |-> s] \/ \E j \in 1 .. Len(c) : d[i] = c[j]
<1> DEFINE new == [key |-> k, source |-> s]
           d == Set(c, k, s)
<1>1. new \in Entry /\ Len(c) \in Nat /\ \A i \in 1 .. Len(c) : c[i] \in Entry
  BY LenProperties, ElementOfSeq DEF Entry
<1>2. CASE \E i \in 1 .. Len(c) : c[i].key = k
  <2>1. d = [i \in 1 .. Len(c) |-> IF c[i].key = k THEN new ELSE c[i]]
    BY <1>2 DEF Set
  <2>2. d \in [1 .. Len(c) -> Entry]
    BY <1>1, <2>1
  <2>3. d \in Seq(Entry) /\ Len(d) = Len(c)
    <3>1. d \in Seq(Entry)
      BY <1>1, <2>2, SeqDef
    <3>2. DOMAIN d = 1 .. Len(c) /\ DOMAIN d = 1 .. Len(d) /\ Len(d) \in Nat
      BY <2>2, <3>1, LenProperties
    <3> QED BY <1>1, <3>1, <3>2
  <2>4. \A i \in 1 .. Len(c) : d[i].key = c[i].key /\ (d[i] = new \/ d[i] = c[i])
    BY <2>1
  <2> QED BY <1>1, <2>3, <2>4 DEF Unique
<1>3. CASE ~\E i \in 1 .. Len(c) : c[i].key = k
  <2>1. d = Append(c, new)
    BY <1>3 DEF Set
  <2>2. /\ d \in Seq(Entry) /\ Len(d) = Len(c) + 1
        /\ \A i \in 1 .. Len(c) : d[i] = c[i]
        /\ d[Len(c) + 1] = new
    BY <1>1, <2>1, AppendProperties
  <2>3. \A i \in 1 .. Len(d) : i \in 1 .. Len(c) \/ i = Len(c) + 1
    BY <1>1, <2>2
  <2> QED BY <1>1, <1>3, <2>2, <2>3 DEF Unique
<1> QED BY <1>2, <1>3

--------------------------------------------------------------------------------
(* Keys and places. *)

\* The mail of an event has a key of the email channel.
LEMMA KeyOfEvent ==
  ASSUME NEW e \in Events PROVE KeyOf(e) \in Keys /\ TypeOf(e) \in MailType
BY EventsAssumption, TemplateOfAssumption DEF KeyOf, TypeOf, MailType, Keys

\* A key is looked for in places.
LEMMA LookupPlaces ==
  ASSUME NEW k \in Keys, NEW i \in 1 .. 3 PROVE Lookup(k)[i] \in Places
<1> PICK c \in Channels, n \in Names : k = <<c, n>>
  BY DEF Keys
<1>1. Lookup(k) = <<<<c, n>>, <<"flat", n>>, <<"default", n>>>>
  BY DEF Lookup
<1>2. i = 1 \/ i = 2 \/ i = 3
  OBVIOUS
<1> QED BY <1>1, <1>2 DEF Places

\* What a file holds now is among what its keys have held.
LEMMA FoundIsHeld ==
  ASSUME FilesOK, NEW k \in Keys, NEW i \in 1 .. 3, files[Lookup(k)[i]] # NULL
  PROVE  files[Lookup(k)[i]] \in Sources \cap Held(k)
BY LookupPlaces DEF FilesOK, Held

\* The text of a found source is one the source's key has held, or it is refused.
LEMMA FillOK ==
  ASSUME NEW k \in Keys, NEW s \in Sources \cap Held(k)
  PROVE  RenderOK(Fill(k, s)) /\ Fill(k, s) # Idle /\ Fill(k, s).key = k
BY DEF RenderOK, Fill, Rendered, Thrown, RenderedOK, ThrownOK, Idle

--------------------------------------------------------------------------------
(* What the steps of a render do to the renders and the cache. *)

\* A step that leaves the files and the cache alone leaves what is said of them.
LEMMA TemplatesFrame ==
  ASSUME FilesOK, CacheOK, UNCHANGED <<files, cache, shown>>
  PROVE  FilesOK' /\ CacheOK'
BY DEF FilesOK, CacheOK, CacheBounded, Held

\* A step of one render that leaves the history of the files alone: it is enough to look
\* at what that render has become.
LEMMA RenderRule ==
  ASSUME RendersOK, UNCHANGED shown, NEW r \in Slots, NEW x,
         render' = [render EXCEPT ![r] = x], RenderOK(x)
  PROVE  RendersOK' /\ render'[r] = x /\ \A q \in Slots \ {r} : render'[q] = render[q]
<1>1. DOMAIN render' = Slots /\ render'[r] = x /\ \A q \in Slots \ {r} : render'[q] = render[q]
  BY DEF RendersOK
<1>2. \A q \in Slots : RenderOK(render'[q])
  BY <1>1 DEF RendersOK
<1>3. \A q \in Slots : RenderOK(render[q])'
  BY <1>2 DEF RenderOK, LoadingOK, RenderedOK, ThrownOK, Held
<1> QED BY <1>1, <1>3 DEF RendersOK

\* A call of render begins, or ends at once with the kept template or the name's refusal.
LEMMA RenderStarts ==
  ASSUME CacheOK, RendersOK, NEW r \in Slots, NEW k \in Keys, Render(r, k)
  PROVE  /\ RendersOK' /\ render'[r] # Idle /\ render'[r].key = k
         /\ \A q \in Slots \ {r} : render'[q] = render[q]
<1>0. UNCHANGED shown
  BY DEF Render
<1>1. CASE InCache(k)
  <2>1. PICK i \in 1 .. Len(cache) : cache[i].key = k
    BY <1>1 DEF InCache
  <2>2. cache[i] = [key |-> k, source |-> cache[i].source] /\ cache[i].source \in Sources
    <3>1. cache[i] \in Entry
      BY ElementOfSeq DEF CacheOK
    <3> QED BY <2>1, <3>1 DEF Entry
  <2>3. /\ Cached(k) \in Sources
        /\ \E j \in 1 .. Len(cache) : cache[j] = [key |-> k, source |-> Cached(k)]
    BY <2>2 DEF Cached
  <2>4. Cached(k) \in Sources \cap Held(k)
    BY <2>3 DEF CacheOK
  <2>5. render' = [render EXCEPT ![r] = Fill(k, Cached(k))]
    BY <1>1 DEF Render
  <2>6. RenderOK(Fill(k, Cached(k))) /\ Fill(k, Cached(k)) # Idle /\ Fill(k, Cached(k)).key = k
    BY <2>4, FillOK
  <2> QED BY <1>0, <2>5, <2>6, RenderRule
<1>2. CASE ~InCache(k) /\ k[2] \in InvalidNames
  <2>1. render' = [render EXCEPT ![r] = Thrown(k)]
    BY <1>2 DEF Render
  <2>2. RenderOK(Thrown(k)) /\ Thrown(k) # Idle /\ Thrown(k).key = k
    BY DEF RenderOK, ThrownOK, Thrown, Idle
  <2> QED BY <1>0, <2>1, <2>2, RenderRule
<1>3. CASE ~InCache(k) /\ k[2] \notin InvalidNames
  <2> DEFINE x == Loading(k, "access", FirstPlace, [i \in FirstPlace .. 3 |-> {files[Lookup(k)[i]]}])
  <2>1. render' = [render EXCEPT ![r] = x]
    BY <1>3 DEF Render
  <2>2. FirstPlace \in 1 .. 3
    BY DEF FirstPlace
  <2>3. RenderOK(x) /\ x # Idle /\ x.key = k
    BY <2>2 DEF RenderOK, LoadingOK, Loading, Idle
  <2> QED BY <1>0, <2>1, <2>3, RenderRule
<1> QED BY <1>1, <1>2, <1>3

\* A render on its way, and only that, does the steps of the search.
LEMMA OnItsWay ==
  ASSUME RendersOK, NEW r \in Slots, render[r].pc \in {"access", "readFile"}
  PROVE  LoadingOK(render[r])
BY DEF RendersOK, RenderOK, RenderedOK, ThrownOK, Thrown, Idle

\* The search goes on at the next place, or fails.
LEMMA SearchGoesOn ==
  ASSUME RendersOK, NEW r \in Slots, LoadingOK(render[r]), NotFound(r), UNCHANGED shown
  PROVE  /\ RendersOK' /\ render'[r] # Idle /\ render'[r].key = render[r].key
         /\ \A q \in Slots \ {r} : render'[q] = render[q]
<1> DEFINE old == render[r]
<1>1. CASE old.place < 3
  <2> DEFINE x == Loading(old.key, "access", old.place + 1, old.seen)
  <2>1. render' = [render EXCEPT ![r] = x]
    BY <1>1 DEF NotFound
  <2>2. old.place + 1 \in 1 .. 3
    BY <1>1 DEF LoadingOK
  <2>3. RenderOK(x) /\ x # Idle /\ x.key = old.key
    BY <2>2 DEF RenderOK, LoadingOK, Loading, Idle
  <2> QED BY <2>1, <2>3, RenderRule
<1>2. CASE ~(old.place < 3)
  <2>1. render' = [render EXCEPT ![r] = Thrown(old.key)]
    BY <1>2 DEF NotFound
  <2>2. RenderOK(Thrown(old.key)) /\ Thrown(old.key) # Idle /\ Thrown(old.key).key = old.key
    BY DEF RenderOK, LoadingOK, ThrownOK, Thrown, Idle
  <2> QED BY <2>1, <2>2, RenderRule
<1> QED BY <1>1, <1>2

\* access: the files and the cache stay, the render remains one of its key.
LEMMA AccessStep ==
  ASSUME FilesOK, CacheOK, RendersOK, NEW r \in Slots, Access(r)
  PROVE  /\ FilesOK' /\ CacheOK' /\ RendersOK' /\ UNCHANGED shown
         /\ LoadingOK(render[r]) /\ render'[r] # Idle /\ render'[r].key = render[r].key
         /\ \A q \in Slots \ {r} : render'[q] = render[q]
<1>1. UNCHANGED <<files, cache, shown>> /\ LoadingOK(render[r])
  BY OnItsWay DEF Access
<1>2. FilesOK' /\ CacheOK'
  BY <1>1, TemplatesFrame
<1>3. CASE NotFound(r)
  BY <1>1, <1>2, <1>3, SearchGoesOn
<1>4. CASE render' = [render EXCEPT ![r].pc = "readFile"]
  <2> DEFINE x == [render[r] EXCEPT !.pc = "readFile"]
  <2>1. render' = [render EXCEPT ![r] = x]
    BY <1>4 DEF RendersOK
  <2>2. x = Loading(x.key, "readFile", x.place, x.seen) /\ x.key = render[r].key /\ x.place = render[r].place
    BY <1>1 DEF LoadingOK, Loading
  <2>3. RenderOK(x) /\ x # Idle
    BY <1>1, <2>2 DEF RenderOK, LoadingOK, Loading, Idle
  <2> QED BY <1>1, <1>2, <2>1, <2>2, <2>3, RenderRule
<1> QED BY <1>3, <1>4 DEF Access

\* readFile: the cache takes the source in and stays within its bound.
LEMMA ReadFileStep ==
  ASSUME FilesOK, CacheOK, RendersOK, NEW r \in Slots, ReadFile(r)
  PROVE  /\ FilesOK' /\ CacheOK' /\ RendersOK' /\ UNCHANGED shown
         /\ LoadingOK(render[r]) /\ render'[r] # Idle /\ render'[r].key = render[r].key
         /\ \A q \in Slots \ {r} : render'[q] = render[q]
<1>1. UNCHANGED <<files, shown>> /\ LoadingOK(render[r])
  BY OnItsWay DEF ReadFile
<1>2. CASE NotFound(r) /\ UNCHANGED cache
  BY <1>1, <1>2, SearchGoesOn, TemplatesFrame
<1>3. CASE /\ Found(r) # NULL
           /\ cache' = Set(Evict(cache), CacheKey(render[r].key), Found(r))
           /\ render' = [render EXCEPT ![r] = Fill(@.key, Found(r))]
  <2> DEFINE k == render[r].key
             s == Found(r)
  <2>1. k \in Keys /\ s \in Sources \cap Held(k)
    BY <1>1, <1>3, FoundIsHeld DEF LoadingOK, Found
  <2>2. RenderOK(Fill(k, s)) /\ Fill(k, s) # Idle /\ Fill(k, s).key = k
    BY <2>1, FillOK
  <2>3. render' = [render EXCEPT ![r] = Fill(k, s)]
    BY <1>3 DEF RendersOK
  <2>4. cache \in Seq(Entry) /\ Len(cache) <= MaxCacheSize /\ Unique(cache)
    BY DEF CacheOK, CacheBounded, Unique
  <2>5. /\ Evict(cache) \in Seq(Entry) /\ Len(Evict(cache)) < MaxCacheSize /\ Unique(Evict(cache))
        /\ \A i \in 1 .. Len(Evict(cache)) : \E j \in 1 .. Len(cache) : Evict(cache)[i] = cache[j]
    BY <2>4, EvictMakesRoom
  <2>6. cache' = Set(Evict(cache), k, s)
    BY <1>3 DEF CacheKey
  <2>7. /\ cache' \in Seq(Entry) /\ Len(cache') <= Len(Evict(cache)) + 1 /\ Unique(cache')
        /\ \A i \in 1 .. Len(cache') :
             \/ cache'[i] = [key |-> k, source |-> s]
             \/ \E j \in 1 .. Len(Evict(cache)) : cache'[i] = Evict(cache)[j]
    BY <2>1, <2>5, <2>6, SetKeepsUnique
  <2>8. Len(cache') <= MaxCacheSize
    BY <2>5, <2>7, LenProperties, CacheAssumption
  <2>9. \A i \in 1 .. Len(cache') : cache'[i].source \in Held(cache'[i].key)
    <3>1. \A j \in 1 .. Len(Evict(cache)) : Evict(cache)[j].source \in Held(Evict(cache)[j].key)
      BY <2>5 DEF CacheOK
    <3> SUFFICES ASSUME NEW i \in 1 .. Len(cache')
                 PROVE  cache'[i].source \in Held(cache'[i].key)
      OBVIOUS
    <3>2. CASE cache'[i] = [key |-> k, source |-> s]
      BY <2>1, <3>2
    <3>3. CASE \E j \in 1 .. Len(Evict(cache)) : cache'[i] = Evict(cache)[j]
      BY <3>1, <3>3
    <3> QED BY <2>7, <3>2, <3>3
  <2>10. CacheOK'
    BY <1>1, <2>7, <2>8, <2>9 DEF CacheOK, CacheBounded, Unique, Held
  <2>11. FilesOK'
    BY <1>1 DEF FilesOK
  <2> QED BY <1>1, <2>2, <2>3, <2>10, <2>11, RenderRule
<1> QED BY <1>2, <1>3 DEF ReadFile

\* A change to a file is added to what its place has held, so nothing said of a render, an
\* entry or a mail is lost.
LEMMA EditStep ==
  ASSUME FilesOK, CacheOK, RendersOK, NEW p \in Places, NEW s \in Sources \cup {NULL}, Edit(p, s)
  PROVE  /\ FilesOK' /\ CacheOK' /\ RendersOK'
         /\ \A k \in Keys : Held(k) \subseteq Held(k)'
         /\ \A r \in Slots : /\ render'[r].pc = render[r].pc
                             /\ render[r] # Idle => render'[r].key = render[r].key
                             /\ render[r] = Idle <=> render'[r] = Idle
<1>1. FilesOK'
  BY DEF Edit, FilesOK
<1>2. \A q \in Places : shown[q] \subseteq shown'[q]
  BY DEF Edit, FilesOK
<1>3. \A k \in Keys : Held(k) \subseteq Held(k)'
  BY <1>2, LookupPlaces DEF Held
<1>4. CacheOK'
  <2>1. UNCHANGED cache
    BY DEF Edit
  <2>2. \A i \in 1 .. Len(cache) : cache[i] \in Entry
    BY ElementOfSeq DEF CacheOK
  <2> QED BY <1>3, <2>1, <2>2 DEF CacheOK, CacheBounded, Entry
<1>5. ASSUME NEW r \in Slots
      PROVE  /\ RenderOK(render[r])' /\ render'[r].pc = render[r].pc
             /\ render[r] # Idle => render'[r].key = render[r].key
             /\ render[r] = Idle <=> render'[r] = Idle
  <2>1. CASE LoadingOK(render[r])
    <3>1. IsLoading(render[r])
      BY <2>1 DEF LoadingOK, IsLoading
    <3>2. PICK seen : render'[r] = [render[r] EXCEPT !.seen = seen]
      BY <3>1 DEF Edit
    <3>3. render'[r] = Loading(render[r].key, render[r].pc, render[r].place, seen)
      BY <2>1, <3>2 DEF LoadingOK, Loading
    <3> QED BY <2>1, <3>3 DEF RenderOK, LoadingOK, Loading, Idle
  <2>2. CASE ~LoadingOK(render[r])
    <3>1. RenderOK(render[r]) /\ ~IsLoading(render[r])
      BY <2>2 DEF RendersOK, RenderOK, RenderedOK, ThrownOK, IsLoading, Idle
    <3>2. render'[r] = render[r]
      BY <3>1 DEF Edit
    <3>3. CASE RenderedOK(render[r])
      BY <1>3, <3>2, <3>3 DEF RenderOK, RenderedOK
    <3>4. CASE render[r] = Idle \/ ThrownOK(render[r])
      BY <3>2, <3>4 DEF RenderOK, ThrownOK
    <3> QED BY <2>2, <3>1, <3>2, <3>3, <3>4 DEF RenderOK
  <2> QED BY <2>1, <2>2
<1>6. RendersOK'
  BY <1>5 DEF RendersOK, Edit
<1> QED BY <1>1, <1>3, <1>4, <1>5, <1>6

\* A render that has been taken is idle again.
LEMMA ClearStep ==
  ASSUME RendersOK, UNCHANGED shown, NEW r \in Slots, Clear(r)
  PROVE  RendersOK' /\ render'[r] = Idle /\ \A q \in Slots \ {r} : render'[q] = render[q]
<1>1. RenderOK(Idle)
  BY DEF RenderOK
<1> QED BY <1>1, RenderRule DEF Clear

--------------------------------------------------------------------------------
(* The handlers. *)

\* What a handler relies on when the others' mails, preferences and renders stay.
LEMMA HandlersRule ==
  ASSUME HandlersOK, NEW e \in Events, NEW pc \in Pcs, Goto(e, pc), UNCHANGED <<email, muted>>,
         \A d \in Events \ {e} : mails'[d] = mails[d] /\ render'[d] = render[d],
         HandlerOK(e)'
  PROVE  HandlersOK'
<1>1. /\ handler' \in [Events -> [pc : Pcs, silent : BOOLEAN]]
      /\ \A d \in Events \ {e} : handler'[d] = handler[d]
  BY DEF HandlersOK, Goto
<1>2. \A d \in Events \ {e} : HandlerOK(d)'
  BY <1>1 DEF HandlersOK, HandlerOK, Settled, At, IsMuted
<1> QED BY <1>1, <1>2 DEF HandlersOK

\* Mails stay right while no place forgets what it has held.
LEMMA MailsFrame ==
  ASSUME MailsOK, UNCHANGED mails, \A k \in Keys : Held(k) \subseteq Held(k)'
  PROVE  MailsOK'
BY KeyOfEvent DEF MailsOK, MailOK

--------------------------------------------------------------------------------
(* The invariant. *)

LEMMA InitIInv == Init => IInv
<1> SUFFICES ASSUME Init PROVE IInv
  OBVIOUS
<1>1. FilesOK
  BY HostsAssumption DEF Init, TemplateInit, FilesOK
<1>2. CacheOK
  BY CacheAssumption, EmptySeq DEF Init, TemplateInit, CacheOK, CacheBounded
<1>3. RendersOK
  BY DEF Init, TemplateInit, RendersOK, RenderOK
<1>4. HandlersOK
  <2>0. email \in EmailSetup
    BY HostsAssumption DEF Init, TemplateInit
  <2>1. handler \in [Events -> [pc : Pcs, silent : BOOLEAN]]
    BY DEF Init, Call, Pcs
  <2>2. \A e \in Events : handler[e].pc = "none" /\ render[e] = Idle
    BY EventsAssumption DEF Init, TemplateInit, Call
  <2> QED BY <2>0, <2>1, <2>2 DEF HandlersOK, HandlerOK, At, Outcome
<1>5. MailsOK
  BY DEF Init, MailsOK, MailOK
<1> QED BY <1>1, <1>2, <1>3, <1>4, <1>5 DEF IInv

\* A handler of the step's event begins, waits for the template, sends, and ends.
LEMMA HandlingStep ==
  ASSUME IInv, NEW e \in Events, Handling(e) \/ SendFails(e) \/ Emit(e)
  PROVE  IInv'
<1> USE DEF IInv
<1>0. e \in Slots /\ Events \subseteq Slots
  BY EventsAssumption
<1>1. HandlerOK(e) /\ MailOK(e) /\ RenderOK(render[e]) /\ handler[e] \in [pc : Pcs, silent : BOOLEAN]
  BY <1>0 DEF HandlersOK, MailsOK, RendersOK
<1>2. CASE Emit(e)
  <2>1. UNCHANGED <<files, cache, edits, shown, email, render, mails, muted>>
    BY <1>2 DEF Emit, tvars
  <2>2. FilesOK' /\ CacheOK'
    BY <2>1, TemplatesFrame
  <2>3. RendersOK' /\ MailsOK'
    BY <2>1 DEF RendersOK, MailsOK, MailOK, RenderOK, RenderedOK, LoadingOK, ThrownOK, Held
  <2>4. /\ handler' \in [Events -> [pc : Pcs, silent : BOOLEAN]]
        /\ handler'[e] = Call("start", IsMuted(e))
        /\ \A d \in Events \ {e} : handler'[d] = handler[d]
    BY <1>2 DEF Emit, HandlersOK, Call, Pcs, IsMuted
  <2>5. HandlerOK(e)'
    BY <1>1, <1>2, <2>1, <2>4 DEF HandlerOK, Emit, At, Call, IsMuted, Outcome
  <2>6. \A d \in Events \ {e} : HandlerOK(d)'
    BY <2>1, <2>4 DEF HandlersOK, HandlerOK, Settled, At, IsMuted
  <2> QED BY <2>1, <2>2, <2>3, <2>4, <2>5, <2>6 DEF HandlersOK
<1>3. CASE BeginRender(e)
  <2>1. UNCHANGED <<files, cache, shown, email, mails, muted>> /\ KeyOf(e) \in Keys
    BY <1>3, KeyOfEvent DEF BeginRender, Render
  <2>2. /\ RendersOK' /\ render'[e] # Idle /\ render'[e].key = KeyOf(e)
        /\ \A q \in Slots \ {e} : render'[q] = render[q]
    BY <1>0, <1>3, <2>1, RenderStarts DEF BeginRender
  <2>3. FilesOK' /\ CacheOK' /\ MailsOK'
    BY <2>1, TemplatesFrame DEF MailsOK, MailOK, Held
  <2>4. handler'[e] = [handler[e] EXCEPT !.pc = "render"]
    BY <1>3 DEF BeginRender, Goto, HandlersOK
  <2>5. HandlerOK(e)'
    BY <1>1, <1>3, <2>1, <2>2, <2>4 DEF HandlerOK, BeginRender, At, IsMuted, KeyOf, Outcome
  <2> QED BY <1>0, <1>3, <2>1, <2>2, <2>3, <2>5, HandlersRule DEF BeginRender, Pcs
<1>4. CASE RenderResolves(e)
  <2>1. UNCHANGED <<files, cache, shown, email, render, mails, muted>>
    BY <1>4 DEF RenderResolves, tvars
  <2>2. FilesOK' /\ CacheOK' /\ RendersOK' /\ MailsOK'
    BY <2>1, TemplatesFrame
    DEF RendersOK, MailsOK, MailOK, RenderOK, RenderedOK, LoadingOK, ThrownOK, Held
  <2>3. handler'[e] = [handler[e] EXCEPT !.pc = "send"]
    BY <1>4 DEF RenderResolves, Goto, HandlersOK
  <2>4. HandlerOK(e)'
    BY <1>1, <1>4, <2>1, <2>3 DEF HandlerOK, RenderResolves, At, IsMuted, KeyOf, Outcome
  <2> QED BY <1>4, <2>1, <2>2, <2>4, HandlersRule DEF RenderResolves, Pcs
<1>5. ASSUME NEW pc \in {"resolved", "rejected"}, Clear(e), Goto(e, pc),
             UNCHANGED <<files, cache, edits, shown, email, mails, muted>>,
             pc = "resolved" => handler[e].silent
      PROVE  IInv'
  <2>1. RendersOK' /\ render'[e] = Idle /\ \A q \in Slots \ {e} : render'[q] = render[q]
    BY <1>0, <1>5, ClearStep
  <2>2. FilesOK' /\ CacheOK' /\ MailsOK'
    BY <1>5, TemplatesFrame DEF MailsOK, MailOK, Held
  <2>3. handler'[e] = [handler[e] EXCEPT !.pc = pc]
    BY <1>5 DEF Goto, HandlersOK
  <2>4. HandlerOK(e)'
    BY <1>1, <1>5, <2>1, <2>3 DEF HandlerOK, Settled, At, IsMuted, KeyOf, Outcome
  <2> QED BY <1>0, <1>5, <2>1, <2>2, <2>4, HandlersRule DEF Pcs, Outcome
<1>6. CASE RenderThrows(e)
  BY <1>5, <1>6 DEF RenderThrows
<1>7. CASE SendFails(e)
  BY <1>5, <1>7 DEF SendFails
<1>8. CASE SendChecks(e)
  <2>1. CASE IsMuted(e)
    <3>1. handler[e].silent
      BY <1>1, <1>8, <2>1 DEF SendChecks, HandlerOK, At, Outcome
    <3> QED BY <1>5, <1>8, <2>1, <3>1 DEF SendChecks
  <2>2. CASE ~IsMuted(e)
    <3>1. UNCHANGED <<files, cache, shown, email, render, mails, muted>> /\ Goto(e, "create")
      BY <1>8, <2>2 DEF SendChecks
    <3>2. FilesOK' /\ CacheOK' /\ RendersOK' /\ MailsOK'
      BY <3>1, TemplatesFrame
      DEF RendersOK, MailsOK, MailOK, RenderOK, RenderedOK, LoadingOK, ThrownOK, Held
    <3>3. handler'[e] = [handler[e] EXCEPT !.pc = "create"]
      BY <3>1 DEF Goto, HandlersOK
    <3>4. HandlerOK(e)'
      BY <1>1, <1>8, <3>1, <3>3 DEF HandlerOK, SendChecks, At, IsMuted, KeyOf, Outcome
    <3> QED BY <3>1, <3>2, <3>4, HandlersRule DEF Pcs
  <2> QED BY <2>1, <2>2
<1>9. CASE SendCreates(e)
  <2> DEFINE s == render[e].source
  <2>1. UNCHANGED <<files, cache, shown, email, muted>> /\ Clear(e)
    BY <1>9 DEF SendCreates
  <2>2. RendersOK' /\ render'[e] = Idle /\ \A q \in Slots \ {e} : render'[q] = render[q]
    BY <1>0, <2>1, ClearStep
  <2>3. FilesOK' /\ CacheOK'
    BY <2>1, TemplatesFrame
  <2>4. s \in (Sources \cap Held(KeyOf(e))) \ Broken
    <3>1. render[e].pc = "done" /\ render[e].key = KeyOf(e)
      BY <1>1, <1>9 DEF SendCreates, HandlerOK, At
    <3> QED BY <1>1, <3>1 DEF RenderOK, LoadingOK, RenderedOK, ThrownOK, Idle
  <2>5. /\ DOMAIN mails' = Events /\ mails'[e] = Mail(e, s, "pending")
        /\ \A d \in Events \ {e} : mails'[d] = mails[d]
    BY <1>9 DEF SendCreates, MailsOK
  <2>6. MailsOK'
    BY <2>1, <2>4, <2>5 DEF MailsOK, MailOK, MailState, Held
  <2>7. mails'[e] # NULL
    BY <2>4, <2>5, NullAssumption DEF MailState
  <2>8. PICK pc \in {"queue", "report", "resolved"} :
          Goto(e, pc) /\ (pc \in {"report", "resolved"} => email # "queue")
    BY <1>9 DEF SendCreates, HandlersOK, EmailSetup
  <2>9. handler'[e] = [handler[e] EXCEPT !.pc = pc]
    BY <2>8 DEF Goto, HandlersOK
  <2>10. HandlerOK(e)'
    BY <1>1, <1>9, <2>1, <2>2, <2>7, <2>8, <2>9
    DEF HandlerOK, Settled, SendCreates, At, IsMuted, Outcome
  <2> QED BY <1>0, <2>1, <2>2, <2>3, <2>5, <2>6, <2>8, <2>10, HandlersRule DEF Pcs, Outcome
<1>10. ASSUME NEW pc \in Outcome, Goto(e, pc), UNCHANGED <<tvars, muted>>,
              handler[e].pc \in {"queue", "report"},
              \/ UNCHANGED mails
              \/ \E state \in MailState : mails' = [mails EXCEPT ![e].state = state],
              pc = "resolved" /\ email = "queue" => mails' = [mails EXCEPT ![e].state = "queued"]
       PROVE  IInv'
  <2>1. UNCHANGED <<files, cache, shown, render, email, muted>>
    BY <1>10 DEF tvars
  <2>2. FilesOK' /\ CacheOK' /\ RendersOK'
    BY <2>1, TemplatesFrame DEF RendersOK, RenderOK, RenderedOK, LoadingOK, ThrownOK, Held
  <2>3. DOMAIN mails' = Events /\ \A d \in Events \ {e} : mails'[d] = mails[d]
    BY <1>10 DEF MailsOK
  <2>4. PICK s \in (Sources \cap Held(KeyOf(e))) \ Broken, old \in MailState :
          mails[e] = Mail(e, s, old)
    BY <1>1, <1>10 DEF HandlerOK, MailOK
  <2>5. PICK state \in MailState : mails'[e] = Mail(e, s, state)
    <3>1. CASE UNCHANGED mails
      BY <2>4, <3>1
    <3>2. CASE \E state \in MailState : mails' = [mails EXCEPT ![e].state = state]
      BY <2>4, <3>2 DEF MailsOK, Mail
    <3> QED BY <1>10, <3>1, <3>2
  <2>6. mails'[e] # NULL
    BY <2>4, <2>5, NullAssumption
  <2>7. pc = "resolved" /\ email = "queue" => mails'[e].state = "queued"
    BY <1>10, <2>4 DEF MailsOK, Mail
  <2>8. MailsOK'
    BY <2>1, <2>3, <2>4, <2>5 DEF MailsOK, MailOK, Held
  <2>9. handler'[e] = [handler[e] EXCEPT !.pc = pc]
    BY <1>10 DEF Goto, HandlersOK
  <2>10. HandlerOK(e)'
    BY <1>1, <1>10, <2>1, <2>6, <2>7, <2>9 DEF HandlerOK, Settled, At, IsMuted, Outcome
  <2> QED BY <1>10, <2>1, <2>2, <2>3, <2>8, <2>10, HandlersRule DEF Pcs
<1>11. CASE SendQueues(e)
  <2>1. CASE mails' = [mails EXCEPT ![e].state = "queued"] /\ Goto(e, "resolved")
    BY <1>10, <1>11, <2>1 DEF SendQueues, At, Outcome, MailState
  <2>2. CASE Goto(e, "rejected") /\ UNCHANGED mails
    BY <1>10, <1>11, <2>2 DEF SendQueues, At, Outcome
  <2> QED BY <1>11, <2>1, <2>2 DEF SendQueues
<1>12. CASE MarkAsFailed(e)
  <2>1. email # "queue"
    BY <1>1, <1>12 DEF MarkAsFailed, HandlerOK
  <2> QED BY <1>10, <1>12, <2>1 DEF MarkAsFailed, At, Outcome, MailState
<1> QED BY <1>2, <1>3, <1>4, <1>6, <1>7, <1>8, <1>9, <1>11, <1>12 DEF Handling

\* A search step, an edit, a preference or a render of the host's takes no handler's text away.
LEMMA OtherStep ==
  ASSUME IInv,
         \/ \E r \in Slots : \/ TemplateStep(r) \/ HostTakes(r)
                             \/ \E k \in HostKeys : HostRender(r, k)
         \/ \E p \in Places, s \in Sources \cup {NULL} :
              Edit(p, s) /\ UNCHANGED <<handler, mails, muted>>
         \/ \E e \in Events, on \in BOOLEAN :
              IsMuted(e) = on /\ SetPreference(e.user, TypeOf(e), on)
  PROVE  IInv'
<1> USE DEF IInv
<1>0. Events \subseteq Slots
  BY EventsAssumption
<1>1. ASSUME NEW r \in Slots, TemplateStep(r) PROVE IInv'
  <2>1. UNCHANGED <<email, handler, mails, muted>>
    BY <1>1 DEF TemplateStep, Access, ReadFile
  <2>2. /\ FilesOK' /\ CacheOK' /\ RendersOK' /\ UNCHANGED shown
        /\ LoadingOK(render[r]) /\ render'[r] # Idle /\ render'[r].key = render[r].key
        /\ \A q \in Slots \ {r} : render'[q] = render[q]
    BY <1>1, AccessStep, ReadFileStep DEF TemplateStep
  <2>3. \A e \in Events : HandlerOK(e)'
    <3> SUFFICES ASSUME NEW e \in Events PROVE HandlerOK(e)'
      OBVIOUS
    <3>1. HandlerOK(e)
      BY DEF HandlersOK
    <3>2. CASE e = r
      BY <2>1, <2>2, <3>1, <3>2 DEF HandlerOK, Settled, LoadingOK, At, IsMuted, KeyOf, Idle
    <3>3. CASE e # r
      BY <1>0, <2>1, <2>2, <3>1, <3>3 DEF HandlerOK, Settled, At, IsMuted, KeyOf
    <3> QED BY <3>2, <3>3
  <2> QED BY <2>1, <2>2, <2>3 DEF HandlersOK, MailsOK, MailOK, Held
<1>2. ASSUME NEW r \in Slots, HostTakes(r) \/ \E k \in HostKeys : HostRender(r, k) PROVE IInv'
  <2>1. r \notin Events /\ UNCHANGED <<files, cache, shown, email, handler, mails, muted>>
    BY <1>2 DEF HostTakes, HostRender, Render
  <2>2. RendersOK' /\ \A q \in Slots \ {r} : render'[q] = render[q]
    BY <1>2, <2>1, RenderStarts, ClearStep, HostKeysAssumption DEF HostTakes, HostRender
  <2>3. FilesOK' /\ CacheOK'
    BY <2>1, TemplatesFrame
  <2>4. \A e \in Events : HandlerOK(e)'
    BY <1>0, <2>1, <2>2 DEF HandlersOK, HandlerOK, Settled, At, IsMuted
  <2> QED BY <2>1, <2>2, <2>3, <2>4 DEF HandlersOK, MailsOK, MailOK, Held
<1>3. ASSUME NEW p \in Places, NEW s \in Sources \cup {NULL},
             Edit(p, s), UNCHANGED <<handler, mails, muted>>
      PROVE  IInv'
  <2>1. /\ FilesOK' /\ CacheOK' /\ RendersOK'
        /\ \A k \in Keys : Held(k) \subseteq Held(k)'
        /\ \A r \in Slots : /\ render'[r].pc = render[r].pc
                            /\ render[r] # Idle => render'[r].key = render[r].key
                            /\ render[r] = Idle <=> render'[r] = Idle
    BY <1>3, EditStep
  <2>0. UNCHANGED email
    BY <1>3 DEF Edit
  <2>2. MailsOK'
    BY <1>3, <2>1, MailsFrame
  <2>3. \A e \in Events : HandlerOK(e)'
    <3> SUFFICES ASSUME NEW e \in Events PROVE HandlerOK(e)'
      OBVIOUS
    <3>1. HandlerOK(e)
      BY DEF HandlersOK
    <3>2. handler[e].pc \in {"send", "create"} => render[e] # Idle
      BY <3>1 DEF HandlerOK, Idle
    <3> QED BY <1>0, <1>3, <2>0, <2>1, <3>1, <3>2 DEF HandlerOK, Settled, At, IsMuted
  <2> QED BY <1>3, <2>0, <2>1, <2>2, <2>3 DEF HandlersOK
<1>4. ASSUME NEW u, NEW t, NEW on \in BOOLEAN, SetPreference(u, t, on) PROVE IInv'
  <2>1. UNCHANGED <<files, cache, render, shown, email, mails>>
    BY <1>4 DEF SetPreference
  <2>2. FilesOK' /\ CacheOK' /\ RendersOK' /\ MailsOK'
    BY <2>1, TemplatesFrame
    DEF RendersOK, MailsOK, MailOK, RenderOK, RenderedOK, LoadingOK, ThrownOK, Held
  <2>3. /\ handler' \in [Events -> [pc : Pcs, silent : BOOLEAN]]
        /\ \A e \in Events : /\ handler'[e].pc = handler[e].pc
                             /\ handler[e].silent => handler'[e].silent
    BY <1>4 DEF SetPreference, HandlersOK
  <2>4. ASSUME NEW e \in Events, handler[e].pc \notin {"none"} \cup Outcome, IsMuted(e)'
        PROVE  handler'[e].silent
    <3>1. CASE IsMuted(e)
      BY <2>3, <2>4, <3>1 DEF HandlersOK, HandlerOK
    <3>2. CASE ~IsMuted(e)
      <4>1. ~on /\ <<e.user, TypeOf(e)>> = <<u, t>>
        BY <1>4, <2>4, <3>2 DEF SetPreference, IsMuted
      <4>2. handler'[e] = [handler[e] EXCEPT !.silent = TRUE]
        BY <1>4, <2>4, <4>1 DEF SetPreference
      <4> QED BY <4>2 DEF HandlersOK
    <3> QED BY <3>1, <3>2
  <2>5. \A e \in Events : HandlerOK(e)'
    BY <2>1, <2>3, <2>4 DEF HandlersOK, HandlerOK, Settled, At
  <2> QED BY <2>1, <2>2, <2>3, <2>5 DEF HandlersOK
<1> QED BY <1>1, <1>2, <1>3, <1>4

LEMMA StepIInv == IInv /\ [Next]_vars => IInv'
<1> SUFFICES ASSUME IInv, [Next]_vars PROVE IInv'
  OBVIOUS
<1>1. CASE \E e \in Events : Emit(e) \/ Handling(e) \/ SendFails(e)
  BY <1>1, HandlingStep
<1>2. CASE UNCHANGED vars
  BY <1>2 DEF vars, tvars, IInv, FilesOK, CacheOK, CacheBounded, RendersOK, RenderOK, RenderedOK,
              LoadingOK, ThrownOK, Held, HandlersOK, HandlerOK, Settled, At, IsMuted, MailsOK, MailOK
<1>3. CASE Next /\ ~\E e \in Events : Emit(e) \/ Handling(e) \/ SendFails(e)
  BY <1>3, OtherStep DEF Next
<1> QED BY <1>1, <1>2, <1>3

LEMMA AlwaysIInv == Spec => []IInv
BY InitIInv, StepIInv, PTL DEF Spec

--------------------------------------------------------------------------------
\* Files, entries and mails keep their shape, and a handler has a render exactly from its
\* start to its row: TemplateService and AuthNotificationListener with any number of calls.
THEOREM TypeCorrect == Spec => []TypeOK
<1>1. IInv => TypeOK
  <2> SUFFICES ASSUME IInv PROVE TypeOK
    OBVIOUS
  <2>1. \A i \in 1 .. Len(cache) : cache[i] \in [key : Keys, source : Sources]
    BY ElementOfSeq DEF IInv, CacheOK, Entry
  <2>2. ASSUME NEW e \in Events, mails[e] # NULL
        PROVE  mails[e] \in [to : {e.user}, type : MailType, token : {e.token}, source : Sources,
                             state : MailState]
    BY <2>2, KeyOfEvent DEF IInv, MailsOK, MailOK, Mail
  <2>3. ASSUME NEW e \in Events
        PROVE  render[e] # Idle <=> handler[e].pc \in {"render", "send", "create"}
    BY DEF IInv, HandlersOK, HandlerOK, At, Idle
  <2> QED BY <2>1, <2>2, <2>3 DEF TypeOK, IInv, FilesOK
<1> QED BY <1>1, AlwaysIInv, PTL

\* The Map of TemplateService stays within maxCacheSize and has one entry to a key, however
\* many loads are under way at once (template.service.ts:44-51).
THEOREM CacheIsBounded == Spec => []CacheBounded
<1>1. IInv => CacheBounded
  BY DEF IInv, CacheOK
<1> QED BY <1>1, AlwaysIInv, PTL

\* Every mail was made from a source that the places of its own key have held, and never
\* from one that does not parse, whatever becomes of files and cache meanwhile.
THEOREM MailsAreOwn == Spec => []MailFromOwnTemplate
<1>1. IInv => MailFromOwnTemplate
  <2> SUFFICES ASSUME IInv, NEW e \in Events, mails[e] # NULL
               PROVE  mails[e].source \in Held(KeyOf(e)) \ Broken
    BY DEF MailFromOwnTemplate, Held
  <2> QED BY DEF IInv, MailsOK, MailOK, Mail
<1> QED BY <1>1, AlwaysIInv, PTL

\* A handler of the listener that resolves has left the row of its mail and, on a host whose
\* email channel is on and has a queue, the job that sends it, or it met a preference that
\* forbids the mail; for every host, also those whose channel is off or without a queue
\* (auth-notification.listener.ts, notification.service.ts:78-136).
THEOREM ResolvedIsMailed == Spec => []ResolvedMeansMailed
<1>1. IInv => ResolvedMeansMailed
  BY DEF IInv, HandlersOK, HandlerOK, Settled, ResolvedMeansMailed
<1> QED BY <1>1, AlwaysIInv, PTL

--------------------------------------------------------------------------------
(* The order of the places. *)

\* What a search relies on: the history it carries has what its places hold now, and
\* each place it has passed was empty at some moment.
SearchOK(x) ==
  IsLoading(x) =>
    /\ DOMAIN x.seen = FirstPlace .. 3 /\ x.place \in FirstPlace .. 3
    /\ \A i \in FirstPlace .. 3 : files[Lookup(x.key)[i]] \in x.seen[i]
    /\ \A j \in FirstPlace .. 3 : j < x.place => NULL \in x.seen[j]

SearchesOK == \A r \in Slots : SearchOK(render[r])

\* While the files stay, it is enough to look at the render that has moved.
LEMMA SearchRule ==
  ASSUME RendersOK, SearchesOK, UNCHANGED <<files, email>>, NEW r \in Slots, NEW x,
         render' = [render EXCEPT ![r] = x], SearchOK(x)
  PROVE  SearchesOK'
<1>1. \A q \in Slots : SearchOK(render'[q])
  BY DEF RendersOK, SearchesOK
<1> QED BY <1>1 DEF SearchesOK, SearchOK, FirstPlace

\* What render returns is no search.
LEMMA EndedOK ==
  ASSUME NEW k, NEW s
  PROVE  SearchOK(Fill(k, s)) /\ SearchOK(Thrown(k)) /\ SearchOK(Idle)
BY DEF SearchOK, IsLoading, Fill, Rendered, Thrown, Idle

\* A call of render looks at its places before anything can change.
LEMMA RenderSearches ==
  ASSUME RendersOK, SearchesOK, NEW r \in Slots, NEW k \in Keys, Render(r, k)
  PROVE  SearchesOK'
<1> DEFINE x == Loading(k, "access", FirstPlace, [i \in FirstPlace .. 3 |-> {files[Lookup(k)[i]]}])
<1>1. FirstPlace \in 1 .. 3
  BY DEF FirstPlace
<1>2. SearchOK(x)
  BY <1>1 DEF SearchOK, Loading
<1>3. UNCHANGED <<files, email>>
  BY DEF Render
<1>4. \/ render' = [render EXCEPT ![r] = Fill(k, Cached(k))]
      \/ render' = [render EXCEPT ![r] = Thrown(k)]
      \/ render' = [render EXCEPT ![r] = x]
  BY DEF Render
<1> QED BY <1>2, <1>3, <1>4, EndedOK, SearchRule

\* A place found empty is one the search may pass.
LEMMA PassingSearches ==
  ASSUME RendersOK, SearchesOK, NEW r \in Slots, IsLoading(render[r]), UNCHANGED <<files, email>>,
         Found(r) = NULL, NotFound(r)
  PROVE  SearchesOK'
<1> DEFINE old == render[r]
           x == Loading(old.key, "access", old.place + 1, old.seen)
<1>1. SearchOK(old)
  BY DEF SearchesOK
<1>2. CASE old.place < 3
  <2>1. FirstPlace \in 1 .. 3 /\ old.place + 1 \in FirstPlace .. 3 /\ NULL \in old.seen[old.place]
    BY <1>1, <1>2 DEF SearchOK, Found, FirstPlace
  <2>2. \A j \in FirstPlace .. 3 : j < old.place + 1 => j < old.place \/ j = old.place
    BY <1>1, <2>1 DEF SearchOK
  <2>3. /\ x.seen = old.seen /\ x.key = old.key /\ x.place = old.place + 1
    BY DEF Loading
  <2>4. SearchOK(x)
    BY <1>1, <2>1, <2>2, <2>3 DEF SearchOK
  <2>5. render' = [render EXCEPT ![r] = x]
    BY <1>2 DEF NotFound
  <2> QED BY <2>4, <2>5, SearchRule
<1>3. CASE ~(old.place < 3)
  <2>1. render' = [render EXCEPT ![r] = Thrown(old.key)]
    BY <1>3 DEF NotFound
  <2> QED BY <2>1, EndedOK, SearchRule
<1> QED BY <1>2, <1>3

LEMMA TemplateSearches ==
  ASSUME RendersOK, SearchesOK, NEW r \in Slots, Access(r) \/ ReadFile(r)
  PROVE  SearchesOK'
<1>1. IsLoading(render[r]) /\ UNCHANGED <<files, email>>
  BY DEF Access, ReadFile, IsLoading
<1>2. CASE Found(r) = NULL
  BY <1>1, <1>2, PassingSearches DEF Access, ReadFile
<1>3. CASE Found(r) # NULL /\ Access(r)
  <2> DEFINE x == [render[r] EXCEPT !.pc = "readFile"]
  <2>1. render' = [render EXCEPT ![r] = x]
    BY <1>3 DEF Access, RendersOK
  <2>2. LoadingOK(render[r])
    BY <1>1, OnItsWay DEF IsLoading
  <2>3. x.seen = render[r].seen /\ x.key = render[r].key /\ x.place = render[r].place
    BY <2>2 DEF LoadingOK, Loading
  <2>4. SearchOK(x)
    BY <1>1, <2>3 DEF SearchesOK, SearchOK
  <2> QED BY <1>1, <2>1, <2>4, SearchRule
<1>4. CASE Found(r) # NULL /\ ReadFile(r)
  <2>1. render' = [render EXCEPT ![r] = Fill(render[r].key, Found(r))]
    BY <1>4 DEF ReadFile, RendersOK
  <2> QED BY <1>1, <2>1, EndedOK, SearchRule
<1> QED BY <1>2, <1>3, <1>4

\* A change to a file is added to the history of every search that has the place.
LEMMA EditSearches ==
  ASSUME FilesOK, RendersOK, SearchesOK, NEW p \in Places, NEW s, Edit(p, s)
  PROVE  SearchesOK'
<1>1. files' = [files EXCEPT ![p] = s] /\ FirstPlace' = FirstPlace
  BY DEF Edit, FirstPlace
<1>2. ASSUME NEW r \in Slots, IsLoading(render[r])
      PROVE  SearchOK(render[r])'
  <2> DEFINE old == render[r]
             new == [i \in DOMAIN old.seen |->
                       IF Lookup(old.key)[i] = p THEN old.seen[i] \cup {s} ELSE old.seen[i]]
  <2>1. LoadingOK(old)
    BY <1>2, OnItsWay DEF IsLoading
  <2>2. render'[r] = [old EXCEPT !.seen = new]
    BY <1>2 DEF Edit
  <2>3. /\ render'[r].seen = new /\ render'[r].key = old.key /\ render'[r].place = old.place
    BY <2>1, <2>2 DEF LoadingOK, Loading
  <2>4. SearchOK(old) /\ FirstPlace \in 1 .. 3
    BY DEF SearchesOK, FirstPlace
  <2>5. ASSUME NEW i \in FirstPlace .. 3
        PROVE  files'[Lookup(old.key)[i]] \in new[i] /\ old.seen[i] \subseteq new[i]
    <3>1. Lookup(old.key)[i] \in Places
      BY <2>1, <2>4, LookupPlaces DEF LoadingOK
    <3> QED BY <1>1, <1>2, <2>4, <3>1 DEF SearchOK, FilesOK
  <2> QED BY <1>1, <1>2, <2>3, <2>4, <2>5 DEF SearchOK
<1>3. ASSUME NEW r \in Slots, ~IsLoading(render[r])
      PROVE  SearchOK(render[r])'
  BY <1>1, <1>3 DEF Edit, SearchOK, IsLoading
<1> QED BY <1>2, <1>3 DEF SearchesOK

LEMMA StepSearches ==
  ASSUME IInv, SearchesOK, [Next]_vars
  PROVE  SearchesOK'
<1> USE DEF IInv
<1>0. Events \subseteq Slots
  BY EventsAssumption
<1>1. ASSUME UNCHANGED <<files, render, email>>
      PROVE  SearchesOK'
  BY <1>1 DEF SearchesOK, SearchOK, FirstPlace
<1>2. ASSUME NEW r \in Slots, Clear(r), UNCHANGED <<files, email>>
      PROVE  SearchesOK'
  BY <1>2, EndedOK, SearchRule DEF Clear
<1>3. ASSUME NEW e \in Events, Emit(e) \/ Handling(e) \/ SendFails(e)
      PROVE  SearchesOK'
  <2>1. CASE BeginRender(e)
    BY <1>0, <2>1, KeyOfEvent, RenderSearches DEF BeginRender
  <2>2. CASE Emit(e) \/ RenderResolves(e) \/ SendQueues(e) \/ MarkAsFailed(e)
    BY <1>1, <2>2 DEF Emit, RenderResolves, SendQueues, MarkAsFailed, tvars
  <2>3. CASE RenderThrows(e) \/ SendCreates(e) \/ SendFails(e)
    BY <1>0, <1>2, <2>3 DEF RenderThrows, SendCreates, SendFails
  <2>4. CASE SendChecks(e)
    BY <1>0, <1>1, <1>2, <2>4 DEF SendChecks
  <2> QED BY <1>3, <2>1, <2>2, <2>3, <2>4 DEF Handling
<1>4. ASSUME NEW r \in Slots,
             TemplateStep(r) \/ HostTakes(r) \/ \E k \in HostKeys : HostRender(r, k)
      PROVE  SearchesOK'
  <2>1. CASE TemplateStep(r)
    BY <2>1, TemplateSearches DEF TemplateStep
  <2>2. CASE HostTakes(r)
    BY <1>2, <2>2 DEF HostTakes
  <2>3. CASE \E k \in HostKeys : HostRender(r, k)
    BY <2>3, RenderSearches, HostKeysAssumption DEF HostRender
  <2> QED BY <1>4, <2>1, <2>2, <2>3
<1>5. ASSUME NEW p \in Places, NEW s \in Sources \cup {NULL}, Edit(p, s)
      PROVE  SearchesOK'
  BY <1>5, EditSearches
<1>6. ASSUME NEW u, NEW t, NEW on \in BOOLEAN, SetPreference(u, t, on)
      PROVE  SearchesOK'
  BY <1>1, <1>6 DEF SetPreference
<1>7. CASE UNCHANGED vars
  BY <1>1, <1>7 DEF vars, tvars
<1> QED BY <1>3, <1>4, <1>5, <1>6, <1>7 DEF Next

\* A source that is read comes from the place the search is at, and the places before it
\* were passed.
LEMMA ReadInOrder ==
  ASSUME RendersOK, SearchesOK, NEW r \in Slots, ReadFile(r), render'[r].pc = "done"
  PROVE  LET seen == render[r].seen IN
         \E i \in DOMAIN seen :
           /\ render'[r].source \in seen[i]
           /\ \A j \in DOMAIN seen : j < i => NULL \in seen[j]
<1>1. IsLoading(render[r]) /\ SearchOK(render[r])
  BY DEF ReadFile, IsLoading, SearchesOK
<1>2. ~NotFound(r)
  BY DEF NotFound, RendersOK, Loading, Thrown
<1>3. render'[r] = Fill(render[r].key, Found(r))
  BY <1>2 DEF ReadFile, RendersOK
<1>4. render'[r].source = Found(r)
  BY <1>3 DEF Fill, Thrown, Rendered
<1>5. Found(r) \in render[r].seen[render[r].place]
  BY <1>1 DEF SearchOK, Found
<1> QED BY <1>1, <1>4, <1>5 DEF SearchOK

\* Only readFile's answer turns a search into a text.
LEMMA OnlyReading ==
  ASSUME IInv, [Next]_vars, NEW r \in Slots, render[r].pc = "readFile", render'[r].pc = "done"
  PROVE  ReadFile(r)
<1> USE DEF IInv
<1>0. Events \subseteq Slots
  BY EventsAssumption
<1>1. ~UNCHANGED render
  OBVIOUS
<1>2. ASSUME NEW q \in Slots, Clear(q) PROVE FALSE
  BY <1>2 DEF Clear, RendersOK, Idle
<1>3. ASSUME NEW q \in Slots, NEW k, Render(q, k) PROVE FALSE
  <2>1. render[q] = Idle /\ q # r
    BY <1>3 DEF Render, Idle
  <2>2. \E x : render' = [render EXCEPT ![q] = x]
    BY <1>3 DEF Render
  <2> QED BY <2>1, <2>2 DEF RendersOK
<1>4. ASSUME NEW e \in Events, Emit(e) \/ Handling(e) \/ SendFails(e) PROVE FALSE
  BY <1>0, <1>1, <1>2, <1>3, <1>4
  DEF Emit, Handling, BeginRender, RenderResolves, RenderThrows, SendChecks, SendCreates, SendQueues,
      MarkAsFailed, SendFails, tvars
<1>5. ASSUME NEW q \in Slots, HostTakes(q) \/ \E k \in HostKeys : HostRender(q, k) PROVE FALSE
  BY <1>2, <1>3, <1>5 DEF HostTakes, HostRender
<1>6. ASSUME NEW q \in Slots, q # r, TemplateStep(q) PROVE FALSE
  <2>1. \A y \in Slots \ {q} : render'[y] = render[y]
    BY <1>6, AccessStep, ReadFileStep DEF TemplateStep
  <2> QED BY <1>6, <2>1
<1>7. ASSUME NEW p \in Places, NEW s \in Sources \cup {NULL}, Edit(p, s) PROVE FALSE
  BY <1>7, EditStep
<1>8. ASSUME NEW u, NEW t, NEW on \in BOOLEAN, SetPreference(u, t, on) PROVE FALSE
  BY <1>1, <1>8 DEF SetPreference
<1>9. ~UNCHANGED vars
  BY <1>1 DEF vars, tvars
<1>10. CASE TemplateStep(r)
  BY <1>10 DEF TemplateStep, Access
<1> QED BY <1>4, <1>5, <1>6, <1>7, <1>8, <1>9, <1>10 DEF Next

\* A template that render loads was in its place during the load, and the earlier places were
\* empty at some moment of it, for any number of renders and changes to the files
\* (template.service.ts, loadTemplate).
THEOREM TemplatesResolveInOrder == Spec => ResolutionOrder
<1>1. Init => SearchesOK
  BY EndedOK DEF Init, TemplateInit, SearchesOK
<1>2. IInv /\ SearchesOK /\ [Next]_vars => SearchesOK'
  BY StepSearches
<1>3. IInv /\ SearchesOK /\ [Next]_vars =>
        [\A r \in Slots : render[r].pc = "readFile" /\ render'[r].pc = "done" =>
           LET seen == render[r].seen IN
           \E i \in DOMAIN seen :
             /\ render'[r].source \in seen[i]
             /\ \A j \in DOMAIN seen : j < i => NULL \in seen[j]]_tvars
  <2> SUFFICES ASSUME IInv, SearchesOK, [Next]_vars, NEW r \in Slots,
                      render[r].pc = "readFile", render'[r].pc = "done"
               PROVE  LET seen == render[r].seen IN
                      \E i \in DOMAIN seen :
                        /\ render'[r].source \in seen[i]
                        /\ \A j \in DOMAIN seen : j < i => NULL \in seen[j]
    OBVIOUS
  <2>1. ReadFile(r)
    BY OnlyReading
  <2> QED BY <2>1, ReadInOrder DEF IInv
<1> QED BY <1>1, <1>2, <1>3, AlwaysIInv, PTL DEF Spec, ResolutionOrder

--------------------------------------------------------------------------------
(* What fairness starts from, in EveryEventSettles: a handler has only so many steps. *)

\* The awaits of a search: two at each place from the one it is at.
LookLeft(x) ==
  CASE x.pc = "access" -> 2 * (3 - x.place) + 2
    [] x.pc = "readFile" -> 2 * (3 - x.place) + 1
    [] OTHER -> 0

\* The steps that may be left to the handling of an event, from the place of the listener
\* and of the search for its template.
PcLeft(pc, look) ==
  CASE pc = "none" -> 13
    [] pc = "start" -> 12
    [] pc = "render" -> 5 + look
    [] pc = "send" -> 4
    [] pc = "create" -> 3
    [] pc \in {"queue", "report"} -> 2
    [] pc \in Outcome -> 0

StepsLeft(e) == PcLeft(handler[e].pc, LookLeft(render[e]))

LEMMA PcLeftBounds ==
  ASSUME NEW pc \in Pcs, NEW look \in 0 .. 6
  PROVE  PcLeft(pc, look) \in 0 .. 13
BY DEF PcLeft, Pcs, Outcome

LEMMA PcLeftValues ==
  ASSUME NEW look
  PROVE  /\ PcLeft("none", look) = 13 /\ PcLeft("start", look) = 12
         /\ PcLeft("render", look) = 5 + look /\ PcLeft("send", look) = 4
         /\ PcLeft("create", look) = 3
         /\ \A pc \in {"queue", "report"} : PcLeft(pc, look) = 2
         /\ \A pc \in Outcome : PcLeft(pc, look) = 0
BY DEF PcLeft, Outcome

LEMMA LookBounds ==
  ASSUME NEW x, RenderOK(x)
  PROVE  LookLeft(x) \in 0 .. 6
BY DEF RenderOK, LoadingOK, RenderedOK, ThrownOK, Idle, LookLeft

LEMMA StepsBounds ==
  ASSUME IInv, NEW e \in Events
  PROVE  StepsLeft(e) \in 0 .. 13
<1>1. RenderOK(render[e]) /\ handler[e].pc \in Pcs
  BY EventsAssumption DEF IInv, RendersOK, HandlersOK
<1> QED BY <1>1, LookBounds, PcLeftBounds DEF StepsLeft

\* access and readFile bring the search on: to the next place, to the file, or to its end.
LEMMA SearchShortens ==
  ASSUME RendersOK, NEW r \in Slots, TemplateStep(r)
  PROVE  LookLeft(render'[r]) < LookLeft(render[r])
<1> DEFINE x == render[r]
<1>1. LoadingOK(x)
  BY OnItsWay DEF TemplateStep, Access, ReadFile
<1>2. x.pc \in {"access", "readFile"} /\ x.place \in 1 .. 3
  BY <1>1 DEF LoadingOK
<1>3. LookLeft(x) = IF x.pc = "access" THEN 2 * (3 - x.place) + 2 ELSE 2 * (3 - x.place) + 1
  BY <1>2 DEF LookLeft
<1>4. \A k : LookLeft(Thrown(k)) = 0 /\ \A s : LookLeft(Fill(k, s)) = 0
  BY DEF LookLeft, Thrown, Fill, Rendered
<1>5. CASE NotFound(r)
  <2>1. CASE x.place < 3
    <3> DEFINE y == Loading(x.key, "access", x.place + 1, x.seen)
    <3>1. render'[r] = y
      BY <1>5, <2>1 DEF NotFound, RendersOK
    <3>2. y.pc = "access" /\ y.place = x.place + 1
      BY DEF Loading
    <3>3. LookLeft(y) = 2 * (3 - (x.place + 1)) + 2
      BY <3>2 DEF LookLeft
    <3> QED BY <1>2, <1>3, <3>1, <3>3
  <2>2. CASE ~(x.place < 3)
    <3>1. render'[r] = Thrown(x.key)
      BY <1>5, <2>2 DEF NotFound, RendersOK
    <3> QED BY <1>2, <1>3, <1>4, <3>1
  <2> QED BY <2>1, <2>2
<1>6. CASE x.pc = "access" /\ render' = [render EXCEPT ![r].pc = "readFile"]
  <2>1. render'[r] = [x EXCEPT !.pc = "readFile"]
    BY <1>6 DEF RendersOK
  <2>2. render'[r].pc = "readFile" /\ render'[r].place = x.place
    BY <1>1, <2>1 DEF LoadingOK, Loading
  <2> QED BY <1>2, <1>3, <1>6, <2>2 DEF LookLeft
<1>7. CASE render' = [render EXCEPT ![r] = Fill(@.key, Found(r))]
  <2>1. render'[r] = Fill(x.key, Found(r))
    BY <1>7 DEF RendersOK
  <2> QED BY <1>2, <1>3, <1>4, <2>1
<1> QED BY <1>5, <1>6, <1>7 DEF TemplateStep, Access, ReadFile

\* A change to the files leaves every search where it is.
LEMMA EditLeaves ==
  ASSUME RendersOK, NEW p \in Places, NEW s, Edit(p, s), NEW r \in Slots
  PROVE  LookLeft(render'[r]) = LookLeft(render[r])
<1>1. CASE IsLoading(render[r])
  <2>1. LoadingOK(render[r])
    BY <1>1, OnItsWay DEF IsLoading
  <2>2. render'[r].pc = render[r].pc /\ render'[r].place = render[r].place
    <3>1. \E seen : render'[r] = [render[r] EXCEPT !.seen = seen]
      BY <1>1 DEF Edit
    <3> QED BY <2>1, <3>1 DEF LoadingOK, Loading
  <2> QED BY <2>2 DEF LookLeft
<1>2. CASE ~IsLoading(render[r])
  BY <1>2 DEF Edit
<1> QED BY <1>1, <1>2

\* A step of a handler leaves it, and no other, fewer.
LEMMA HandlingShortens ==
  ASSUME IInv, NEW e \in Events, Emit(e) \/ Handling(e) \/ SendFails(e)
  PROVE  /\ StepsLeft(e)' < StepsLeft(e)
         /\ \A d \in Events \ {e} : StepsLeft(d)' = StepsLeft(d)
<1>1. /\ Events \subseteq Slots /\ RendersOK /\ RendersOK'
      /\ DOMAIN handler = Events /\ \A d \in Events : handler[d] \in [pc : Pcs, silent : BOOLEAN]
  BY HandlingStep, EventsAssumption DEF IInv, HandlersOK
<1>2. ASSUME NEW pc \in Pcs, Goto(e, pc)
      PROVE  handler'[e].pc = pc /\ \A d \in Events \ {e} : handler'[d] = handler[d]
  BY <1>1, <1>2 DEF Goto
<1>3. \A d \in Events \ {e} : handler'[d] = handler[d] /\ render'[d] = render[d]
  <2>1. \A d \in Events \ {e} : handler'[d] = handler[d]
    <3>1. CASE Emit(e)
      BY <1>1, <3>1 DEF Emit
    <3>2. CASE \E pc : Goto(e, pc)
      BY <1>1, <3>2 DEF Goto
    <3>3. Emit(e) \/ \E pc : Goto(e, pc)
      BY DEF Handling, BeginRender, RenderResolves, RenderThrows, SendChecks, SendCreates,
             SendQueues, MarkAsFailed, SendFails
    <3> QED BY <3>1, <3>2, <3>3
  <2>2. UNCHANGED render \/ Clear(e) \/ Render(e, KeyOf(e))
    BY DEF Emit, Handling, BeginRender, RenderResolves, RenderThrows, SendChecks, SendCreates,
           SendQueues, MarkAsFailed, SendFails, tvars
  <2>3. \E x : render' = [render EXCEPT ![e] = x] \/ UNCHANGED render
    BY <2>2 DEF Clear, Render
  <2> QED BY <1>1, <2>1, <2>3 DEF RendersOK
<1>4. \A d \in Events \ {e} : StepsLeft(d)' = StepsLeft(d)
  BY <1>3 DEF StepsLeft
<1>5. LookLeft(render[e]) \in 0 .. 6 /\ LookLeft(render'[e]) \in 0 .. 6
  <2>1. RenderOK(render[e]) /\ RenderOK(render[e])'
    BY <1>1 DEF RendersOK
  <2>2. ASSUME IInv' PROVE LookLeft(render'[e]) \in 0 .. 6
    BY <2>1, LookBounds DEF RenderOK, LoadingOK, RenderedOK, ThrownOK, Idle, LookLeft
  <2> QED BY <2>1, <2>2, LookBounds, HandlingStep
<1>6. /\ StepsLeft(e) = PcLeft(handler[e].pc, LookLeft(render[e]))
      /\ StepsLeft(e)' = PcLeft(handler'[e].pc, LookLeft(render'[e]))
  BY DEF StepsLeft
<1>7. CASE Emit(e)
  <2>1. handler[e].pc = "none" /\ handler'[e].pc = "start"
    BY <1>1, <1>7 DEF Emit, At, Call
  <2> QED BY <1>4, <1>6, <2>1, PcLeftValues
<1>8. CASE BeginRender(e)
  <2>1. handler[e].pc = "start" /\ handler'[e].pc = "render"
    BY <1>2, <1>8 DEF BeginRender, At, Pcs
  <2>2. StepsLeft(e) = 12 /\ StepsLeft(e)' = 5 + LookLeft(render'[e])
    BY <1>6, <2>1, PcLeftValues
  <2> QED BY <1>4, <1>5, <2>2
<1>9. CASE RenderResolves(e) \/ RenderThrows(e)
  <2>1. handler[e].pc = "render" /\ handler'[e].pc \in {"send", "rejected"}
    BY <1>2, <1>9 DEF RenderResolves, RenderThrows, At, Pcs, Outcome
  <2>2. StepsLeft(e) = 5 + LookLeft(render[e]) /\ StepsLeft(e)' \in {4, 0}
    BY <1>6, <2>1, PcLeftValues DEF Outcome
  <2> QED BY <1>4, <1>5, <2>2
<1>10. CASE SendChecks(e)
  <2>1. handler[e].pc = "send" /\ handler'[e].pc \in {"resolved", "create"}
    BY <1>2, <1>10 DEF SendChecks, At, Pcs, Outcome
  <2> QED BY <1>4, <1>6, <2>1, PcLeftValues DEF Outcome
<1>11. CASE SendCreates(e)
  <2>1. handler[e].pc = "create" /\ handler'[e].pc \in {"queue", "report"} \cup Outcome
    <3>1. email \in EmailSetup
      BY DEF IInv, HandlersOK
    <3> QED BY <1>2, <1>11, <3>1 DEF SendCreates, At, Pcs, Outcome, EmailSetup
  <2> QED BY <1>4, <1>6, <2>1, PcLeftValues
<1>12. CASE SendQueues(e) \/ MarkAsFailed(e)
  <2>1. handler[e].pc \in {"queue", "report"} /\ handler'[e].pc \in Outcome
    BY <1>2, <1>12 DEF SendQueues, MarkAsFailed, At, Pcs, Outcome
  <2> QED BY <1>4, <1>6, <2>1, PcLeftValues
<1>13. CASE SendFails(e)
  <2>1. handler[e].pc \in {"send", "create"} /\ handler'[e].pc = "rejected"
    BY <1>2, <1>13 DEF SendFails, At, Pcs, Outcome
  <2> QED BY <1>4, <1>6, <2>1, PcLeftValues DEF Outcome
<1> QED BY <1>7, <1>8, <1>9, <1>10, <1>11, <1>12, <1>13 DEF Handling

\* The handling of an event ends after thirteen steps at most: each await of the listener, of
\* send or of the search for its template leaves it fewer, and nothing that others do, the
\* host's renders and changes to the files included, gives it more
\* (auth-notification.listener.ts, template.service.ts).
THEOREM HandlersRunOut ==
  Spec => /\ [](\A e \in Events : StepsLeft(e) \in 0 .. 13)
          /\ [][\A e \in Events :
                  /\ StepsLeft(e)' <= StepsLeft(e)
                  /\ Emit(e) \/ Handling(e) \/ SendFails(e) \/ TemplateStep(e)
                     => StepsLeft(e)' < StepsLeft(e)]_vars
<1> DEFINE Shortens(e) == /\ StepsLeft(e)' <= StepsLeft(e)
                          /\ Emit(e) \/ Handling(e) \/ SendFails(e) \/ TemplateStep(e)
                             => StepsLeft(e)' < StepsLeft(e)
<1>1. IInv => \A e \in Events : StepsLeft(e) \in 0 .. 13
  BY StepsBounds
<1>2. ASSUME IInv, Next, NEW e \in Events PROVE Shortens(e)
  <2>0. e \in Slots /\ Events \subseteq Slots /\ StepsLeft(e) \in Nat /\ RendersOK /\ HandlersOK
    BY <1>2, StepsBounds, EventsAssumption DEF IInv
  <2>1. ASSUME NEW d \in Events, Emit(d) \/ Handling(d) \/ SendFails(d)
        PROVE  (d # e => StepsLeft(e)' = StepsLeft(e)) /\ (d = e => StepsLeft(e)' < StepsLeft(e))
    BY <1>2, <2>1, HandlingShortens
  <2>2. ASSUME NEW r \in Slots, TemplateStep(r)
        PROVE  (r # e => StepsLeft(e)' = StepsLeft(e)) /\ (r = e => StepsLeft(e)' < StepsLeft(e))
    <3>1. UNCHANGED handler
      BY <2>2 DEF TemplateStep
    <3>2. CASE r # e
      <4>1. render'[e] = render[e]
        BY <1>2, <2>0, <2>2, <3>2, AccessStep, ReadFileStep DEF TemplateStep, IInv
      <4> QED BY <3>1, <3>2, <4>1 DEF StepsLeft
    <3>3. CASE r = e
      <4>1. At(e, "render")
        <5>1. render[e].pc \in {"access", "readFile"}
          BY <2>2, <3>3 DEF TemplateStep, Access, ReadFile
        <5> QED BY <2>0, <5>1 DEF HandlersOK, HandlerOK, At, Idle
      <4>2. LookLeft(render'[e]) < LookLeft(render[e])
        BY <2>0, <2>2, <3>3, SearchShortens
      <4>3. LookLeft(render[e]) \in Nat /\ LookLeft(render'[e]) \in Nat
        <5>1. RenderOK(render[e]) /\ LookLeft(render[e]) \in 0 .. 6
          BY <2>0, LookBounds DEF RendersOK
        <5>2. IInv'
          BY <1>2, StepIInv
        <5>3. RenderOK(render[e])'
          BY <2>0, <5>2 DEF IInv, RendersOK
        <5>4. LookLeft(render'[e]) \in 0 .. 6
          BY <5>3 DEF RenderOK, LoadingOK, RenderedOK, ThrownOK, Idle, LookLeft
        <5> QED BY <5>1, <5>4
      <4>4. StepsLeft(e) = 5 + LookLeft(render[e]) /\ StepsLeft(e)' = 5 + LookLeft(render'[e])
        BY <3>1, <4>1, PcLeftValues DEF StepsLeft, At
      <4> QED BY <3>3, <4>2, <4>3, <4>4
    <3> QED BY <3>2, <3>3
  <2>3. ASSUME handler'[e].pc = handler[e].pc, LookLeft(render'[e]) = LookLeft(render[e])
        PROVE  StepsLeft(e)' = StepsLeft(e)
    BY <2>3 DEF StepsLeft
  <2>4. ASSUME NEW r \in Slots, HostTakes(r) \/ \E k \in HostKeys : HostRender(r, k)
        PROVE  StepsLeft(e)' = StepsLeft(e)
    <3>1. r # e /\ UNCHANGED handler /\ \E x : render' = [render EXCEPT ![r] = x]
      BY <2>4 DEF HostTakes, HostRender, Clear, Render
    <3>2. render'[e] = render[e]
      BY <2>0, <3>1 DEF RendersOK
    <3> QED BY <2>3, <3>1, <3>2
  <2>5. ASSUME NEW p \in Places, NEW s \in Sources \cup {NULL}, Edit(p, s), UNCHANGED handler
        PROVE  StepsLeft(e)' = StepsLeft(e)
    BY <2>0, <2>3, <2>5, EditLeaves
  <2>6. ASSUME NEW u, NEW t, NEW on \in BOOLEAN, SetPreference(u, t, on)
        PROVE  StepsLeft(e)' = StepsLeft(e)
    <3>1. UNCHANGED render /\ handler'[e].pc = handler[e].pc
      BY <2>0, <2>6 DEF SetPreference, HandlersOK
    <3> QED BY <2>3, <3>1
  <2>7. StepsLeft(e)' \in Nat
    <3>1. IInv'
      BY <1>2, StepIInv
    <3>2. RenderOK(render[e])' /\ handler'[e].pc \in Pcs
      BY <2>0, <3>1 DEF IInv, RendersOK, HandlersOK
    <3>3. LookLeft(render'[e]) \in 0 .. 6
      BY <3>2 DEF RenderOK, LoadingOK, RenderedOK, ThrownOK, Idle, LookLeft
    <3> QED BY <3>2, <3>3, PcLeftBounds DEF StepsLeft
  <2>8. StepsLeft(e)' <= StepsLeft(e)
    BY <1>2, <2>0, <2>1, <2>2, <2>4, <2>5, <2>6, <2>7 DEF Next
  <2> QED BY <2>0, <2>1, <2>2, <2>8
<1>3. IInv /\ [Next]_vars => [\A e \in Events : Shortens(e)]_vars
  BY <1>2
<1> QED BY <1>1, <1>3, AlwaysIInv, PTL DEF Spec
================================================================================
