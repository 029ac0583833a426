--------------------------- MODULE TemplateService ---------------------------
(****************************************************************************)
(* TemplateService (nestjs-notifications/src/templates): a template is      *)
(* looked for in three places, its source is read, compiled and kept in a   *)
(* Map of bounded size, and the oldest entry makes room for a new one.      *)
(*                                                                          *)
(* fs.access and fs.readFile are awaited one after the other, so files may  *)
(* come and go between them and any number of renders may miss the cache at *)
(* the same time; from readFile's answer to the rendered text nothing is    *)
(* awaited.  A template is its source; the data it is filled with is the    *)
(* caller's.                                                                *)
(****************************************************************************)
EXTENDS Naturals, Sequences, FiniteSets

CONSTANTS
  Slots,         \* renders that may be under way at once
  Channels, Names,
  InvalidNames,  \* names loadTemplate refuses
  Sources,       \* contents of a template file
  Broken,        \* those Handlebars cannot parse
  HasProjectDir, \* the email channel's options name a templateDir
  MaxCacheSize,
  Hosts,         \* the host application at start-up: [files, email]
  MaxEdits,      \* bounds the changes made to the files
  NULL

ASSUME CacheAssumption == MaxCacheSize \in Nat \ {0}
ASSUME SourcesAssumption == Broken \subseteq Sources /\ NULL \notin Sources
ASSUME NamesAssumption == InvalidNames \subseteq Names
ASSUME PlacesAssumption == HasProjectDir \in BOOLEAN /\ Channels \cap {"flat", "default"} = {}
Keys == Channels \X Names
Places == (Channels \cup {"flat", "default"}) \X Names

\* The email channel is switched off, or has no queue (no redis in the options), or has one.
EmailSetup == {"off", "noQueue", "queue"}

ASSUME HostsAssumption ==
  Hosts \subseteq [files : [Places -> Sources \cup {NULL}], email : EmailSetup]
ASSUME EditsAssumption == MaxEdits \in Nat

VARIABLES
  files,   \* content of each place, NULL when there is no file
  cache,   \* the Map: entries [key, source] in the order their keys came in
  render,  \* the local variables of each call of render
  edits,   \* changes made to the files
  shown,   \* history: what each place has ever held
  email    \* options.channels.email, as far as it matters here

tvars == <<files, cache, render, edits, shown, email>>

\* Where the template of a key is looked for, in order.
Lookup(k) == <<k, <<"flat", k[2]>>, <<"default", k[2]>>>>
\* The constructor takes templateDir only from an enabled channel.
FirstPlace == IF HasProjectDir /\ email # "off" THEN 1 ELSE 3

Idle == [pc |-> "idle"]
Loading(k, pc, i, seen) == [pc |-> pc, key |-> k, place |-> i, seen |-> seen]
Rendered(k, source) == [pc |-> "done", key |-> k, source |-> source]
Thrown(k) == [pc |-> "thrown", key |-> k]

IsLoading(x) == x.pc \in {"access", "readFile"}

\* compiledTemplate(data) parses the source, and throws if it cannot.
Fill(k, source) == IF source \in Broken THEN Thrown(k) ELSE Rendered(k, source)

InCache(k) == \E i \in 1 .. Len(cache) : cache[i].key = k
Cached(k) == CHOOSE s \in Sources : \E i \in 1 .. Len(cache) : cache[i] = [key |-> k, source |-> s]

TemplateInit ==
  /\ \E h \in Hosts : files = h.files /\ email = h.email
  /\ cache = <<>>
  /\ render = [r \in Slots |-> Idle]
  /\ edits = 0
  /\ shown = [p \in Places |-> {files[p]}]

Render(r, k) ==
  /\ render[r] = Idle
  /\ render' = [render EXCEPT ![r] =
       IF InCache(k) THEN Fill(k, Cached(k))
       ELSE IF k[2] \in InvalidNames THEN Thrown(k)
       ELSE Loading(k, "access", FirstPlace, [i \in FirstPlace .. 3 |-> {files[Lookup(k)[i]]}])]
  /\ UNCHANGED <<files, cache, edits, shown, email>>

Found(r) == files[Lookup(render[r].key)[render[r].place]]

\* Variants of NotFound: the flat directory is passed over; the search begins again.
NotFoundNotFlat(r) ==
  render' = [render EXCEPT ![r] =
    IF @.place < 3 THEN [@ EXCEPT !.pc = "access", !.place = 3] ELSE Thrown(@.key)]
NotFoundRetry(r) ==
  render' = [render EXCEPT ![r].pc = "access", ![r].place = IF @ < 3 THEN @ + 1 ELSE FirstPlace]

\* The next place to look at, or nowhere left.
NotFound(r) ==
  LET x == render[r] IN
  render' = [render EXCEPT ![r] =
    IF x.place < 3 THEN Loading(x.key, "access", x.place + 1, x.seen) ELSE Thrown(x.key)]

Access(r) ==
  /\ render[r].pc = "access"
  /\ IF Found(r) = NULL THEN NotFound(r) ELSE render' = [render EXCEPT ![r].pc = "readFile"]
  /\ UNCHANGED <<files, cache, edits, shown, email>>

\* Variant of Evict: room is made only once the size has been passed.
EvictLate(c) == IF Len(c) > MaxCacheSize THEN Tail(c) ELSE c

Evict(c) == IF Len(c) >= MaxCacheSize THEN Tail(c) ELSE c

\* Map.set: a key that is there keeps its place.
Set(c, k, s) ==
  LET new == [key |-> k, source |-> s] IN
  IF \E i \in 1 .. Len(c) : c[i].key = k
  THEN [i \in 1 .. Len(c) |-> IF c[i].key = k THEN new ELSE c[i]]
  ELSE Append(c, new)

\* Variant of CacheKey: the channel is left out.
NameOnly(k) == <<CHOOSE c \in Channels : TRUE, k[2]>>

CacheKey(k) == k

ReadFile(r) ==
  /\ render[r].pc = "readFile"
  /\ \/ /\ Found(r) = NULL
        /\ NotFound(r)
        /\ UNCHANGED cache
     \/ /\ Found(r) # NULL
        /\ cache' = Set(Evict(cache), CacheKey(render[r].key), Found(r))
        /\ render' = [render EXCEPT ![r] = Fill(@.key, Found(r))]
  /\ UNCHANGED <<files, edits, shown, email>>

\* A deployment or an operator adds, changes or removes a file of the project.
Edit(p, s) ==
  /\ p[1] # "default" /\ edits < MaxEdits
  /\ files' = [files EXCEPT ![p] = s]
  /\ edits' = edits + 1
  /\ shown' = [shown EXCEPT ![p] = @ \cup {s}]
  /\ render' = [r \in Slots |->
       IF IsLoading(render[r])
       THEN [render[r] EXCEPT !.seen =
               [i \in DOMAIN @ |-> IF Lookup(render[r].key)[i] = p THEN @[i] \cup {s} ELSE @[i]]]
       ELSE render[r]]
  /\ UNCHANGED <<cache, email>>

Clear(r) == render' = [render EXCEPT ![r] = Idle]

----------------------------------------------------------------------------
(* Properties *)

\* The Map never holds more than maxCacheSize templates, however many loads finish after
\* the same look at it, and never two under one key.
CacheBounded ==
  /\ Len(cache) <= MaxCacheSize
  /\ \A i, j \in 1 .. Len(cache) : cache[i].key = cache[j].key => i = j

\* A loaded template was in its place during the load, and each place that comes before
\* that one was empty at some moment of the load, whatever the files did meanwhile.
ResolutionOrder ==
  [][\A r \in Slots : render[r].pc = "readFile" /\ render'[r].pc = "done" =>
       LET seen == render[r].seen IN
       \E i \in DOMAIN seen :
         /\ render'[r].source \in seen[i]
         /\ \A j \in DOMAIN seen : j < i => NULL \in seen[j]]_tvars
===============================================================================
