------------------------------ MODULE LiveProofs ------------------------------
(***************************************************************************)
(* What LiveServer promises to those who look on while things change, for  *)
(* any folder, schemas, requests, remote server and numbers of each.       *)
(*                                                                         *)
(* For caches and events nothing is assumed of how a schema is inferred,   *)
(* merged or built: it is enough that a change which leaves a merged       *)
(* schema behind has a duty to invalidate and to tell, and that a reader   *)
(* knows when it is overtaken.  Clones come after.                         *)
(***************************************************************************)
EXTENDS LiveServer, SchemaServerProofs

\* The files are a function, each under the name of a table.
DocumentsOK ==
    /\ documents = [t \in DOMAIN documents |-> documents[t]]
    /\ DOMAIN documents \subseteq Table

\* The handlers that fetch and build are records with these fields.
FetchesOK ==
    /\ DOMAIN fetches = Client
    /\ \A c \in Client :
           /\ DOMAIN fetches[c] = {"pc", "request", "rows", "exists"}
           /\ fetches[c].pc \in {"idle", "answer", "choose", "store"}

BuildOK(b) ==
    /\ DOMAIN b = {"pc", "names", "built", "late"}
    /\ b.pc \in {"idle", "read", "store"}
    /\ b.names \subseteq Table
    /\ b.late \in BOOLEAN

Duty == [step : {"none", "invalidate", "emit"}, held : Table \cup {NoLock}, events : 0..3]

\* Whoever has something left to do has events to send in the end.
DutiesOK ==
    /\ duties \in [Actor -> Duty]
    /\ \A a \in Actor : duties[a].step # "none" => duties[a].events # 0
    /\ changes \in 0..MaxChanges

Shapes ==
    /\ DocumentsOK
    /\ FetchesOK
    /\ DOMAIN builds = Reader
    /\ \A g \in Reader : BuildOK(builds[g])
    /\ overtaken \in BOOLEAN
    /\ backlog \in 0..Capacity + 1
    /\ page \in Page
    /\ DutiesOK
    /\ cloneMode \in BOOLEAN /\ audience \in {"graphql", "page", "none"}

\* The schema that a request would build now, and the builds that know of no
\* change: what was listed is what there is, what was built is that schema.
Present == BuildSchema(documents, merged, overlay)
OnTime(b) ==
    ~b.late => /\ b.pc = "read" => b.names = DOMAIN documents
               /\ b.pc = "store" => b.built = Present

GraphqlInv ==
    NoInvalidationPending /\ IsCurrent =>
        /\ ~overtaken /\ graphql # NotCached => graphql = Present
        /\ \A g \in Reader : OnTime(builds[g])

\* A page that shows an old state will hear of it.
PageInv ==
    page.live /\ page.behind /\ ~page.untold =>
        page.timer \/ backlog > 0 \/ \E a \in Actor : duties[a].step # "none"

Inv == Shapes /\ GraphqlInv /\ PageInv

-----------------------------------------------------------------------------
(***************************************************************************)
(* A step changes the documents or schemas and leaves a duty or a merge    *)
(* that failed, or it leaves them alone.                                   *)
(***************************************************************************)

ChangeStep ==
    \E a \in Actor, held \in Table \cup {NoLock}, events \in 1..3 : Begin(a, held, events)

Quiet == UNCHANGED <<documents, overlay, inferred, merged>>
OnlyFetches ==
    UNCHANGED <<graphql, builds, overtaken, backlog, page, cloneMode, audience, duties, changes>>

QuietStep ==
    /\ Quiet
    /\ \/ \E a \in Actor : BeginSave(a) \/ InvalidateCache(a) \/ EmitEvents(a)
       \/ \E g \in Reader : ServeGraphql(g)
       \/ ShowPage
       \/ OnlyFetches

LEMMA LocalChangeCases ==
    ASSUME NEW a \in Handler, LocalChange(a), DocumentsOK
    PROVE  DocumentsOK' /\ (ChangeStep \/ QuietStep)
<1> USE FolderAssumption
<1>0. a \in Actor
  BY DEF Actor
<1>1. CASE \E req \in Request : UpdateItem(req) /\ Begin(a, req.table, 3)
  <2> PICK req \in Request : UpdateItem(req) /\ Begin(a, req.table, 3)
    BY <1>1
  <2>1. req.table \in DOMAIN documents
    BY DEF UpdateItem, IsAccepted
  <2>2. DocumentsOK'
    BY <2>1 DEF UpdateItem, DocumentsOK
  <2> QED
    BY <1>0, <2>1, <2>2 DEF ChangeStep, DocumentsOK
<1>2. CASE \E t \in Transient : (CreateResource(t) \/ DeleteResource(t)) /\ Begin(a, t, 3)
  <2> PICK t \in Transient : (CreateResource(t) \/ DeleteResource(t)) /\ Begin(a, t, 3)
    BY <1>2
  <2>1. CreateResource(t) => DocumentsOK'
    BY DEF CreateResource, DocumentsOK
  <2>2. DeleteResource(t) => DocumentsOK'
    BY DEF DeleteResource, DocumentsOK
  <2> QED
    BY <1>0, <2>1, <2>2 DEF ChangeStep
<1>3. CASE \E declared \in Overlays : SaveDeclaredSchema(declared) /\ Begin(a, NoLock, 2)
  BY <1>0, <1>3 DEF SaveDeclaredSchema, ChangeStep, DocumentsOK
<1>4. CASE InferAndSaveSchema /\ Begin(a, NoLock, 2)
  BY <1>0, <1>4 DEF InferAndSaveSchema, ChangeStep, DocumentsOK
<1>5. CASE SaveSchema /\ BeginSave(a)
  BY <1>0, <1>5 DEF SaveSchema, QuietStep, Quiet, DocumentsOK
<1> QED
  BY <1>1, <1>2, <1>3, <1>4, <1>5 DEF LocalChange

LEMMA WatcherChangeCases ==
    ASSUME WatcherChange, DocumentsOK
    PROVE  DocumentsOK' /\ ChangeStep
<1>1. \A t \in Table : EditFile(t) => DocumentsOK'
  BY DEF EditFile, DocumentsOK
<1>2. LoadSchemaFile => DocumentsOK'
  BY DEF LoadSchemaFile, DocumentsOK
<1> QED
  BY <1>1, <1>2 DEF WatcherChange, ChangeStep, Actor

LEMMA CloneChangeCases ==
    ASSUME NEW c \in Client, CloneChange(c), DocumentsOK
    PROVE  DocumentsOK' /\ ChangeStep
<1>1. Begin(c, Cloned, 3) /\ Store(c) /\ c \in Actor
  BY DEF CloneChange, Actor
<1>2. documents' = [t \in DOMAIN documents \cup {Cloned} |->
                       IF t = Cloned THEN RowsToStore(fetches[c]) ELSE documents[t]]
  BY <1>1 DEF Store
<1>3. DocumentsOK'
  BY <1>2, CloneAssumption DEF DocumentsOK
<1> QED
  BY <1>1, <1>3, CloneAssumption DEF ChangeStep

LEMMA StepCases ==
    ASSUME LiveNext, DocumentsOK
    PROVE  DocumentsOK' /\ (ChangeStep \/ QuietStep)
<1>1. CASE \E a \in Handler : LocalChange(a)
  BY <1>1, LocalChangeCases
<1>2. CASE \E c \in Client : CloneChange(c)
  BY <1>2, CloneChangeCases
<1>3. CASE WatcherChange
  BY <1>3, WatcherChangeCases
<1>4. CASE \/ \E c \in Client : CloneStep(c)
           \/ ChangeRemote
  BY <1>4 DEF CloneStep, ChangeRemote, QuietStep, Quiet, OnlyFetches, vars, config, DocumentsOK
<1>5. CASE \E a \in Actor : InvalidateCache(a) \/ EmitEvents(a)
  BY <1>5 DEF InvalidateCache, EmitEvents, QuietStep, Quiet, vars, DocumentsOK
<1>6. CASE \E g \in Reader : ServeGraphql(g)
  BY <1>6 DEF ServeGraphql, QuietStep, Quiet, vars, DocumentsOK
<1>7. CASE ShowPage
  BY <1>7 DEF ShowPage, QuietStep, Quiet, vars, DocumentsOK
<1> QED
  BY <1>1, <1>2, <1>3, <1>4, <1>5, <1>6, <1>7 DEF LiveNext

-----------------------------------------------------------------------------
\* Fetches keep their shape, whatever is fetched.
LEMMA FetchKept ==
    ASSUME FetchesOK, NEW c \in Client,
           (\E request \in Fetch : Ask(c, request)) \/ Answer(c) \/ Choose(c)
           \/ Skip(c) \/ Store(c)
    PROVE  FetchesOK'
<1>1. DOMAIN IdleFetch = {"pc", "request", "rows", "exists"} /\ IdleFetch.pc = "idle"
  BY DEF IdleFetch
<1>2. ASSUME NEW request \in Fetch, Ask(c, request) PROVE FetchesOK'
  BY <1>2 DEF Ask, FetchesOK
<1>3. CASE Answer(c)
  BY <1>1, <1>3 DEF Answer, FetchesOK
<1>4. CASE Choose(c)
  BY <1>1, <1>4 DEF Choose, FetchesOK
<1>5. CASE Skip(c) \/ Store(c)
  BY <1>1, <1>5 DEF Skip, Store, FetchesOK
<1> QED
  BY <1>2, <1>3, <1>4, <1>5

LEMMA FetchesKept ==
    ASSUME FetchesOK, LiveNext PROVE FetchesOK'
<1>1. CASE UNCHANGED fetches
  BY <1>1 DEF FetchesOK
<1>2. ASSUME NEW c \in Client, CloneChange(c) \/ CloneStep(c) PROVE FetchesOK'
  BY <1>2, FetchKept DEF CloneChange, CloneStep
<1>3. CASE \E a \in Handler : LocalChange(a)
  BY <1>1, <1>3 DEF LocalChange, cloneVars
<1>4. CASE WatcherChange
  BY <1>1, <1>4 DEF WatcherChange
<1>5. CASE ChangeRemote
  BY <1>1, <1>5 DEF ChangeRemote, RemoteChange
<1>6. CASE \E a \in Actor : InvalidateCache(a) \/ EmitEvents(a)
  BY <1>1, <1>6 DEF InvalidateCache, EmitEvents, cloneVars
<1>7. CASE (\E g \in Reader : ServeGraphql(g)) \/ ShowPage
  BY <1>1, <1>7 DEF ServeGraphql, ShowPage, cloneVars
<1> QED
  BY <1>2, <1>3, <1>4, <1>5, <1>6, <1>7 DEF LiveNext

-----------------------------------------------------------------------------
(***************************************************************************)
(* Shapes.                                                                 *)
(***************************************************************************)

\* What Shapes says of all but documents and fetches.
LiveShapes ==
    /\ DOMAIN builds = Reader
    /\ \A g \in Reader : BuildOK(builds[g])
    /\ overtaken \in BOOLEAN
    /\ backlog \in 0..Capacity + 1
    /\ page \in Page
    /\ DutiesOK
    /\ cloneMode \in BOOLEAN /\ audience \in {"graphql", "page", "none"}

LEMMA PagesAtFirst ==
    /\ FreshPage \in Page /\ ~FreshPage.behind
    /\ ClosedPage \in Page /\ ~ClosedPage.live
<1>1. 0 \in 0..StormLimit - 1
  BY StormAssumption
<1>2. FreshPage \in Page /\ ~FreshPage.behind
  BY <1>1 DEF FreshPage, Page
<1> QED
  BY <1>2 DEF ClosedPage, Page

LEMMA BeginKeepsShapes ==
    ASSUME LiveShapes, ChangeStep PROVE LiveShapes'
<1> PICK a \in Actor, held \in Table \cup {NoLock}, events \in 1..3 : Begin(a, held, events)
  BY DEF ChangeStep
<1>1. page' \in Page
  <2>1. page \in Page /\ Changed(IsCurrent')
    BY DEF LiveShapes, Begin
  <2> QED
    BY <2>1 DEF Page, Changed
<1>2. changes' \in 0..MaxChanges
  BY MaxChangesAssumption DEF LiveShapes, DutiesOK, Begin
<1>3. DutiesOK'
  <2>1. [step |-> "invalidate", held |-> held, events |-> events] \in Duty
    BY DEF Duty
  <2> QED
    BY <1>2, <2>1 DEF LiveShapes, DutiesOK, Begin
<1> QED
  BY <1>1, <1>3 DEF LiveShapes, Begin, Changed, config

LEMMA DutyKeepsShapes ==
    ASSUME LiveShapes, NEW a \in Actor, BeginSave(a) \/ InvalidateCache(a) \/ EmitEvents(a)
    PROVE  LiveShapes'
<1> USE DEF LiveShapes
<1>1. CASE BeginSave(a)
  <2>1. [step |-> "emit", held |-> NoLock, events |-> 1] \in Duty
    BY DEF Duty
  <2>2. DutiesOK'
    BY <1>1, <2>1, MaxChangesAssumption DEF DutiesOK, BeginSave
  <2> QED
    BY <1>1, <2>2 DEF BeginSave, config
<1>2. CASE InvalidateCache(a)
  <2>1. DOMAIN builds' = Reader /\ \A g \in Reader : BuildOK(builds'[g])
    BY <1>2 DEF InvalidateCache, Invalidate, BuildOK
  <2>2. DutiesOK'
    BY <1>2 DEF DutiesOK, InvalidateCache, Duty
  <2>3. overtaken' \in BOOLEAN /\ UNCHANGED <<backlog, page, cloneMode, audience>>
    BY <1>2 DEF InvalidateCache, Invalidate, config
  <2> QED
    BY <2>1, <2>2, <2>3
<1>3. CASE EmitEvents(a)
  <2>1. duties[a] \in Duty /\ NoDuty \in Duty /\ NoDuty.step = "none"
    BY DEF Duty, NoDuty, DutiesOK
  <2>2. DutiesOK'
    BY <1>3, <2>1 DEF DutiesOK, EmitEvents
  <2>3. duties[a].events \in 0..3
    BY <2>1 DEF Duty
  <2>4. Emit(duties[a].events)
    BY <1>3 DEF EmitEvents
  <2>5. backlog' \in 0..Capacity + 1
    BY <2>3, <2>4, CapacityAssumption DEF Emit
  <2>6. page' \in Page
    BY <2>4 DEF Emit, Page
  <2> QED
    BY <1>3, <2>2, <2>5, <2>6 DEF EmitEvents, config
<1> QED
  BY <1>1, <1>2, <1>3

LEMMA LookKeepsShapes ==
    ASSUME LiveShapes, DocumentsOK, (\E g \in Reader : ServeGraphql(g)) \/ ShowPage \/ OnlyFetches
    PROVE  LiveShapes'
<1> USE DEF LiveShapes
<1>1. ASSUME NEW g \in Reader, ServeGraphql(g) PROVE LiveShapes'
  <2>1. BuildOK(builds[g]) /\ BuildOK(IdleBuild)
    BY DEF BuildOK, IdleBuild
  <2>2. CASE ListResources(g, DOMAIN documents)
    <3>1. BuildOK(builds'[g])
      BY <2>2 DEF ListResources, IdleBuild, BuildOK, DocumentsOK
    <3> QED
      BY <1>1, <2>2, <3>1 DEF ServeGraphql, ListResources, config, DutiesOK
  <2>3. CASE ReadResources(g, documents, merged, overlay)
    <3>1. BuildOK(builds'[g])
      BY <2>1, <2>3 DEF ReadResources, BuildOK
    <3> QED
      BY <1>1, <2>3, <3>1 DEF ServeGraphql, ReadResources, config, DutiesOK
  <2>4. CASE StoreSchema(g)
    <3>1. overtaken' \in BOOLEAN
      BY <2>1, <2>4 DEF StoreSchema, BuildOK
    <3> QED
      BY <1>1, <2>1, <2>4, <3>1 DEF ServeGraphql, StoreSchema, config, DutiesOK
  <2> QED
    BY <1>1, <2>2, <2>3, <2>4 DEF ServeGraphql
<1>2. CASE ShowPage
  <2>1. Receive \/ Refresh \/ Calm
    BY <1>2 DEF ShowPage, Listen
  <2>2. ClosedPage \in Page
    BY PagesAtFirst
  <2>3. HandleEvent => page' \in Page
    <3>1. page.recent \in 0..StormLimit - 1
      BY DEF Page
    <3>2. CASE page.recent + 1 = StormLimit
      BY <2>2, <3>2 DEF HandleEvent
    <3>3. CASE page.recent + 1 # StormLimit
      <4>1. page.recent + 1 \in 0..StormLimit - 1
        BY <3>1, <3>3, StormAssumption
      <4> QED
        BY <3>3, <4>1 DEF HandleEvent, Page
    <3> QED
      BY <3>2, <3>3
  <2>4. page' \in Page
    <3>1. 0 \in 0..StormLimit - 1
      BY StormAssumption
    <3>2. CASE Receive
      BY <2>3, <3>2 DEF Receive
    <3>3. CASE Refresh \/ Calm
      BY <3>1, <3>3 DEF Refresh, Calm, Page
    <3> QED
      BY <2>1, <3>2, <3>3
  <2>5. backlog' \in 0..Capacity + 1
    BY <2>1, CapacityAssumption DEF Receive, Refresh, Calm
  <2> QED
    BY <1>2, <2>4, <2>5 DEF ShowPage, config, DutiesOK
<1>3. CASE OnlyFetches
  BY <1>3 DEF OnlyFetches, DutiesOK
<1> QED
  BY <1>1, <1>2, <1>3

LEMMA StepKeepsShapes ==
    ASSUME Shapes, LiveNext PROVE Shapes'
<1>1. DocumentsOK' /\ FetchesOK' /\ (ChangeStep \/ QuietStep)
  BY StepCases, FetchesKept DEF Shapes
<1>2. LiveShapes /\ DocumentsOK
  BY DEF Shapes, LiveShapes
<1>3. LiveShapes'
  BY <1>1, <1>2, BeginKeepsShapes, DutyKeepsShapes, LookKeepsShapes DEF QuietStep
<1> QED
  BY <1>1, <1>3 DEF Shapes, LiveShapes

-----------------------------------------------------------------------------
(***************************************************************************)
(* The cached GraphQL schema.                                              *)
(***************************************************************************)

\* Where documents and schemas are left alone, so is what would be built.
LEMMA QuietKeepsPresent ==
    ASSUME Quiet
    PROVE  /\ Present' = Present
           /\ IsCurrent' <=> IsCurrent
           /\ DOMAIN documents' = DOMAIN documents
BY DEF Quiet, Present, IsCurrent

\* After a change that merged an invalidation is due.
LEMMA ChangeKeepsGraphqlInv ==
    ASSUME Shapes, ChangeStep PROVE GraphqlInv'
<1> PICK a \in Actor, held \in Table \cup {NoLock}, events \in 1..3 : Begin(a, held, events)
  BY DEF ChangeStep
<1>1. ASSUME IsCurrent' PROVE ~NoInvalidationPending'
  <2>1. duties'[a] = [step |-> "invalidate", held |-> held, events |-> events]
    BY <1>1 DEF Begin, Shapes, DutiesOK
  <2> QED
    BY <2>1 DEF NoInvalidationPending
<1> QED
  BY <1>1 DEF GraphqlInv

LEMMA DutyKeepsGraphqlInv ==
    ASSUME Shapes, GraphqlInv, Quiet,
           NEW a \in Actor, BeginSave(a) \/ InvalidateCache(a) \/ EmitEvents(a)
    PROVE  GraphqlInv'
<1>1. CASE InvalidateCache(a)
  <2>1. graphql' = NotCached
    BY <1>1 DEF InvalidateCache, Invalidate
  <2>2. \A g \in Reader : builds'[g].pc = "idle" \/ builds'[g].late
    BY <1>1 DEF InvalidateCache, Invalidate, Shapes, BuildOK
  <2>3. \A g \in Reader : OnTime(builds[g])'
    BY <2>2 DEF OnTime
  <2> QED
    BY <2>1, <2>3 DEF GraphqlInv
<1>2. CASE BeginSave(a) \/ EmitEvents(a)
  <2>1. UNCHANGED <<graphql, builds, overtaken>>
    BY <1>2 DEF BeginSave, EmitEvents
  <2>2. NoInvalidationPending' => NoInvalidationPending
    BY <1>2 DEF BeginSave, EmitEvents, NoInvalidationPending, Shapes, DutiesOK, NoDuty
  <2> QED
    BY <2>1, <2>2, QuietKeepsPresent DEF GraphqlInv, OnTime
<1> QED
  BY <1>1, <1>2

\* A reader that no change has overtaken builds from what there is.
LEMMA ServeKeepsGraphqlInv ==
    ASSUME Shapes, GraphqlInv, Quiet, NEW g \in Reader, ServeGraphql(g)
    PROVE  GraphqlInv'
<1>1. duties' = duties
  BY DEF ServeGraphql
<1>2. SUFFICES ASSUME NoInvalidationPending, IsCurrent
               PROVE  /\ ~overtaken' /\ graphql' # NotCached => graphql' = Present
                      /\ \A h \in Reader :
                             builds'[h] # builds[h] /\ ~builds'[h].late =>
                                 /\ builds'[h].pc = "read" => builds'[h].names = DOMAIN documents
                                 /\ builds'[h].pc = "store" => builds'[h].built = Present
  BY <1>1, QuietKeepsPresent DEF GraphqlInv, NoInvalidationPending, OnTime
<1>3. OnTime(builds[g]) /\ BuildOK(builds[g])
  BY <1>2 DEF GraphqlInv, Shapes
<1>4. DOMAIN builds = Reader
  BY DEF Shapes
<1>5. CASE ListResources(g, DOMAIN documents)
  BY <1>2, <1>4, <1>5 DEF ListResources, IdleBuild, GraphqlInv
<1>6. CASE ReadResources(g, documents, merged, overlay)
  <2>1. builds[g].names = DOMAIN documents =>
            [t \in builds[g].names \cap DOMAIN documents |-> documents[t]] = documents
    BY DEF Shapes, DocumentsOK
  <2>2. ~builds[g].late => builds[g].names = DOMAIN documents
    BY <1>3, <1>6 DEF OnTime, ReadResources
  <2>3. builds'[g].late = builds[g].late /\ builds'[g].pc = "store"
    BY <1>3, <1>4, <1>6 DEF ReadResources, BuildOK
  <2>4. ~builds[g].late => builds'[g].built = Present
    BY <1>3, <1>4, <1>6, <2>1, <2>2 DEF ReadResources, BuildOK, Present
  <2>5. \A h \in Reader : builds'[h] # builds[h] => h = g
    BY <1>4, <1>6 DEF ReadResources
  <2> QED
    BY <1>2, <1>6, <2>3, <2>4, <2>5 DEF ReadResources, GraphqlInv
<1>7. CASE StoreSchema(g)
  BY <1>2, <1>3, <1>4, <1>7 DEF StoreSchema, IdleBuild, GraphqlInv, OnTime, BuildOK
<1> QED
  BY <1>5, <1>6, <1>7 DEF ServeGraphql

LEMMA StepKeepsGraphqlInv ==
    ASSUME Shapes, GraphqlInv, LiveNext PROVE GraphqlInv'
<1>1. ChangeStep \/ QuietStep
  BY StepCases DEF Shapes
<1>2. ASSUME Quiet, ShowPage \/ OnlyFetches PROVE GraphqlInv'
  BY <1>2, QuietKeepsPresent
     DEF ShowPage, OnlyFetches, GraphqlInv, NoInvalidationPending, OnTime
<1> QED
  BY <1>1, <1>2, ChangeKeepsGraphqlInv, DutyKeepsGraphqlInv, ServeKeepsGraphqlInv
     DEF QuietStep

-----------------------------------------------------------------------------
(***************************************************************************)
(* The page.                                                               *)
(***************************************************************************)

\* Somebody will send events.
Busy == \E a \in Actor : duties[a].step # "none"

LEMMA ChangeKeepsPageInv ==
    ASSUME Shapes, ChangeStep, PageInv PROVE PageInv'
<1> PICK a \in Actor, held \in Table \cup {NoLock}, events \in 1..3 : Begin(a, held, events)
  BY DEF ChangeStep
<1>1. CASE IsCurrent'
  <2>1. duties'[a].step = "invalidate"
    BY <1>1 DEF Begin, Shapes, DutiesOK
  <2> QED
    BY <2>1 DEF PageInv
<1>2. CASE ~IsCurrent'
  <2>1. page \in Page /\ Changed(IsCurrent')
    BY DEF Begin, Shapes
  <2>2. page'.live => page'.untold
    BY <1>2, <2>1 DEF Changed, Page
  <2> QED
    BY <2>2 DEF PageInv
<1> QED
  BY <1>1, <1>2

LEMMA DutyKeepsPageInv ==
    ASSUME Shapes, PageInv, NEW a \in Actor,
           BeginSave(a) \/ InvalidateCache(a) \/ EmitEvents(a)
    PROVE  PageInv'
<1>1. CASE BeginSave(a) \/ InvalidateCache(a)
  <2>1. duties'[a].step = "emit"
    BY <1>1 DEF BeginSave, InvalidateCache, Shapes, DutiesOK, Duty
  <2> QED
    BY <2>1 DEF PageInv
<1>2. CASE EmitEvents(a)
  <2>1. Emit(duties[a].events) /\ duties[a].events \in 1..3
    BY <1>2 DEF EmitEvents, Shapes, DutiesOK, Duty
  <2>2. page'.live => backlog' > 0
    BY <2>1, CapacityAssumption DEF Emit, Shapes
  <2> QED
    BY <2>2 DEF PageInv
<1> QED
  BY <1>1, <1>2

LEMMA ShowKeepsPageInv ==
    ASSUME Shapes, PageInv, ShowPage PROVE PageInv'
<1>1. duties' = duties
  BY DEF ShowPage
<1>2. CASE Receive
  <2>1. CASE backlog > Capacity
    BY <1>2, <2>1, CapacityAssumption DEF Receive, PageInv, Shapes
  <2>2. CASE ~(backlog > Capacity)
    <3>1. page'.timer \/ ~page'.live
      BY <1>2, <2>2 DEF Receive, HandleEvent, ClosedPage, FreshPage, Shapes, Page
    <3> QED
      BY <3>1 DEF PageInv
  <2> QED
    BY <2>1, <2>2
<1>3. CASE Refresh
  BY <1>3 DEF Refresh, PageInv, Shapes, Page
<1>4. CASE Calm
  <2>1. /\ page'.live = page.live /\ page'.behind = page.behind
        /\ page'.untold = page.untold /\ page'.timer = page.timer
        /\ backlog' = backlog
    BY <1>4 DEF Calm, Shapes, Page
  <2> QED
    BY <1>1, <2>1 DEF PageInv
<1> QED
  BY <1>2, <1>3, <1>4 DEF ShowPage, Listen

LEMMA StepKeepsPageInv ==
    ASSUME Shapes, PageInv, LiveNext PROVE PageInv'
<1>1. ChangeStep \/ QuietStep
  BY StepCases DEF Shapes
<1>2. ASSUME NEW g \in Reader, ServeGraphql(g) PROVE PageInv'
  BY <1>2 DEF ServeGraphql, PageInv
<1>3. CASE OnlyFetches
  BY <1>3 DEF OnlyFetches, PageInv
<1> QED
  BY <1>1, <1>2, <1>3, ChangeKeepsPageInv, DutyKeepsPageInv, ShowKeepsPageInv DEF QuietStep

-----------------------------------------------------------------------------
(***************************************************************************)
(* The theorems.                                                           *)
(***************************************************************************)

LEMMA InitInv == LiveInit => Inv
<1> SUFFICES ASSUME LiveInit PROVE Inv
  OBVIOUS
<1>1. DocumentsOK
  BY FolderAssumption DEF LiveInit, StartsWith, DocumentsOK, IsFunction
<1>2. FetchesOK
  BY DEF LiveInit, CloneInit, IdleFetch, FetchesOK
<1>3. DOMAIN builds = Reader /\ \A g \in Reader : BuildOK(builds[g])
  BY DEF LiveInit, IdleBuild, BuildOK
<1>4. page \in Page
  BY PagesAtFirst DEF LiveInit
<1>5. DutiesOK
  BY MaxChangesAssumption DEF LiveInit, DutiesOK, Duty, NoDuty
<1>6. GraphqlInv
  BY DEF LiveInit, GraphqlInv, OnTime, IdleBuild
<1>7. PageInv
  BY PagesAtFirst DEF LiveInit, PageInv
<1>8. /\ overtaken \in BOOLEAN /\ cloneMode \in BOOLEAN
      /\ audience \in {"graphql", "page", "none"}
  BY Zenon DEF LiveInit
<1>9. backlog \in 0..Capacity + 1
  BY CapacityAssumption DEF LiveInit
<1> QED
  BY <1>1, <1>2, <1>3, <1>4, <1>5, <1>6, <1>7, <1>8, <1>9 DEF Inv, Shapes

\* Whatever changes, and however far builds, fetches and the page have got,
\* builds that know of no change are of what there is, and a page that shows
\* an old state will be told.
THEOREM Invariance == LiveSpec => []Inv
<1>1. Inv /\ [LiveNext]_liveVars => Inv'
  <2> SUFFICES ASSUME Inv, [LiveNext]_liveVars PROVE Inv'
    OBVIOUS
  <2>1. CASE LiveNext
    BY <2>1, StepKeepsShapes, StepKeepsGraphqlInv, StepKeepsPageInv DEF Inv
  <2>2. CASE UNCHANGED liveVars
    BY <2>2 DEF liveVars, vars, cloneVars, Inv, Shapes, DocumentsOK, FetchesOK, DutiesOK,
                GraphqlInv, PageInv, NoInvalidationPending, IsCurrent, OnTime, Present
  <2> QED
    BY <2>1, <2>2
<1> QED
  BY <1>1, InitInv, PTL DEF LiveSpec

\* Every variable of the composition stays within its type (LiveServer).
THEOREM LiveTypeCorrect == LiveSpec => []LiveTypeOK
<1>1. Inv => LiveTypeOK
  BY DEF Inv, Shapes, DocumentsOK, FetchesOK, BuildOK, DutiesOK, Duty, LiveTypeOK
<1> QED
  BY <1>1, Invariance, PTL

\* The cached GraphQL schema is that of the current documents and tables,
\* unless its resources were read before a change that was finished before it
\* was stored: so for any way to infer, merge and build schemas
\* (graphql_schema, invalidate_graphql_schema and all their callers).
THEOREM CachedIsCurrentUnlessOvertaken == LiveSpec => []CachedUnlessOvertaken
<1>1. Inv => CachedUnlessOvertaken
  BY DEF Inv, GraphqlInv, Present, CachedUnlessOvertaken, CachedIsCurrent
<1> QED
  BY <1>1, Invariance, PTL

\* A page that has received all events shows the current state or is about to
\* load it, for channels of any capacity and any limit for storms
\* (emit_event, get_events, useOverviewLiveUpdates).
THEOREM PageCatchesUp == LiveSpec => []ViewIsCurrent
<1>1. Inv => ViewIsCurrent
  BY DEF Inv, Shapes, PageInv, ViewIsCurrent, NoDuty
<1> QED
  BY <1>1, Invariance, PTL

-----------------------------------------------------------------------------
(***************************************************************************)
(* Clones.  A fetch is answered, then it looks whether the resource        *)
(* exists, then it stores: other fetches and changes of the remote server  *)
(* come in between.  The invariant says of every fetch on its way that     *)
(* what it holds can be stored, and that a resource it has seen is still   *)
(* there.                                                                  *)
(***************************************************************************)

\* Rows with a scalar id each, all different.
IsClonable(rows) ==
    /\ IsArray(rows)
    /\ \A i \in DOMAIN rows : Has(rows[i], IdColumn) /\ IsScalar(rows[i][IdColumn])
    /\ KeysDistinct(rows, IdColumn)

\* The clone's resource is written by the proxy only, from rows with an `id` each.
CloneApart ==
    /\ Cloned \notin DOMAIN Folder \cup Transient
    /\ Edits[Cloned] = {}
    /\ \A rows \in RemoteRows : IsClonable(rows)

\* Its key is `id`, which inference looks for first (infer_primary_key).
IsKeyedById(tables) == Cloned \in DOMAIN tables => tables[Cloned].primaryKey \in {NoKey, IdColumn}
CloneKeyedById ==
    /\ Len(KeyCandidates[Cloned]) > 0 /\ KeyCandidates[Cloned][1] = IdColumn
    /\ \A declared \in Overlays : IsKeyedById(declared)

\* What was fetched can be stored.
FetchOK(fetch) ==
    /\ fetch.pc # "idle" => fetch.request \in Fetch
    /\ fetch.pc \in {"choose", "store"} =>
           /\ IsClonable(fetch.rows)
           /\ fetch.request.kind = "item" =>
                  Len(fetch.rows) = 1 /\ fetch.rows[1][IdColumn].text = fetch.request.id
    /\ fetch.pc = "store" /\ fetch.exists => IsCloned

\* Only a clone has the resource, and all of it can be stored again.
LocalOK == IsCloned => cloneMode /\ IsClonable(Local)

CloneInv ==
    /\ EffectiveInv
    /\ LocalOK
    /\ remote \in RemoteRows
    /\ FetchesOK
    /\ \A c \in Client : FetchOK(fetches[c])

\* No schema has another key for the clone's rows.
KeyInv ==
    /\ IsKeyedById(overlay) /\ IsKeyedById(schemaFile)
    /\ IsKeyedById(inferred) /\ IsKeyedById(merged)

\* The items stored since the last fetch of all rows are in the resource.
Found(id) == IsCloned /\ \E i \in DOMAIN Local : Local[i][IdColumn].text = id
StoredInv == \A id \in stored : Found(id)

-----------------------------------------------------------------------------
(***************************************************************************)
(* Rows and items.                                                         *)
(***************************************************************************)

\* A row that has its id.
IsKeyed(row, id) ==
    IsRow(row) /\ Has(row, IdColumn) /\ IsScalar(row[IdColumn]) /\ row[IdColumn].text = id

LEMMA OneRowIsClonable ==
    ASSUME NEW row, NEW id, IsKeyed(row, id) PROVE IsClonable(<<row>>)
<1>1. IsArray(<<row>>)
  BY DEF IsArray, IsFunction, IsKeyed
<1> QED
  BY <1>1 DEF IsClonable, IsKeyed, KeysDistinct

\* An item gets the id that was asked for.
LEMMA ItemIsKeyed ==
    ASSUME NEW row, IsRow(row), NEW id
    PROVE  IsKeyed(With(row, IdColumn, CoerceId(<<>>, Cloned, id)), id)
<1> DEFINE v == CoerceId(<<>>, Cloned, id)
<1>1. IsValue(v) /\ IsScalar(v) /\ v.text = id
  BY KeyValues DEF CoerceId, Number, Str, Json, IsScalar
<1> HIDE DEF v
<1>2. /\ IsRow(With(row, IdColumn, v))
      /\ Has(With(row, IdColumn, v), IdColumn) /\ With(row, IdColumn, v)[IdColumn] = v
  BY <1>1, RowWith
<1> QED
  BY <1>1, <1>2 DEF IsKeyed, v

\* It takes the place of the one with its id, or is new.
LEMMA WithItemIs ==
    ASSUME NEW rows, IsClonable(rows), NEW id, NEW item, IsKeyed(item, id)
    PROVE  LET new == WithItem(rows, id, item)
           IN  /\ IsClonable(new)
               /\ \E i \in DOMAIN new : new[i][IdColumn].text = id
               /\ \A i \in DOMAIN rows :
                      \E j \in DOMAIN new : new[j][IdColumn].text = rows[i][IdColumn].text
<1> DEFINE p == FindIndex(rows, IdColumn, id)
           new == WithItem(rows, id, item)
           R == Range(rows) \cup {item}
<1>1. /\ p # 0 => p \in DOMAIN rows /\ rows[p][IdColumn].text = id
      /\ p = 0 => \A i \in DOMAIN rows : rows[i][IdColumn].text # id
  BY FindIndexIs DEF IsClonable, IdMatches
<1>2. rows \in Seq(R) /\ \A row \in R : IsRow(row)
  BY ArrayIsSeq DEF IsClonable, IsKeyed
<1>3. DOMAIN rows = 1..Len(rows) /\ Len(rows) \in Nat
  BY DEF IsClonable, IsArray
<1> HIDE DEF p
<1>4. CASE p = 0
  <2>1. new = Append(rows, item)
    BY <1>4 DEF WithItem, p
  <2> HIDE DEF R
  <2>2. /\ DOMAIN new = 1..Len(rows) + 1 /\ new \in Seq(R) /\ item \in R
        /\ new[Len(rows) + 1] = item
        /\ \A i \in 1..Len(rows) : new[i] = rows[i]
    <3>1. item \in R
      BY DEF R
    <3> QED
      BY <1>2, <2>1, <3>1
  <2> HIDE DEF new
  <2>3. IsArray(new)
    BY <1>2, <2>2, SeqIsArray
  <2>4. IsClonable(new)
    BY <1>1, <1>3, <1>4, <2>2, <2>3 DEF IsClonable, IsKeyed, KeysDistinct
  <2>5. new[Len(rows) + 1][IdColumn].text = id /\ Len(rows) + 1 \in DOMAIN new
    BY <1>3, <2>2 DEF IsKeyed
  <2>6. \A i \in DOMAIN rows : i \in DOMAIN new /\ new[i] = rows[i]
    BY <1>3, <2>2
  <2> QED
    BY <2>4, <2>5, <2>6 DEF new
<1>5. CASE p # 0
  <2>1. new = ReplaceAt(rows, p, item)
    BY <1>5 DEF WithItem, p
  <2>2. p \in DOMAIN rows /\ rows[p][IdColumn].text = id
    BY <1>1, <1>5
  <2> HIDE DEF R
  <2>3. /\ DOMAIN new = DOMAIN rows /\ new \in Seq(R)
        /\ new[p] = item
        /\ \A i \in DOMAIN rows \ {p} : new[i] = rows[i]
    <3>1. item \in R
      BY DEF R
    <3> QED
      BY <1>2, <2>1, <2>2, <3>1 DEF ReplaceAt
  <2> HIDE DEF new
  <2>4. IsArray(new)
    BY <1>2, <2>3, SeqIsArray
  <2>5. IsClonable(new)
    BY <2>2, <2>3, <2>4 DEF IsClonable, IsKeyed, KeysDistinct
  <2>6. \A i \in DOMAIN rows : new[i][IdColumn].text = rows[i][IdColumn].text
    BY <2>2, <2>3 DEF IsKeyed
  <2> QED
    BY <2>2, <2>3, <2>5, <2>6 DEF new
<1> QED
  BY <1>4, <1>5

-----------------------------------------------------------------------------
(***************************************************************************)
(* Keys.                                                                   *)
(***************************************************************************)

LEMMA ClonableKey ==
    ASSUME CloneKeyedById, NEW rows, IsClonable(rows)
    PROVE  InferPrimaryKey(Cloned, rows) \in {NoKey, IdColumn}
<1> DEFINE candidates == KeyCandidates[Cloned]
           I == {i \in 1..Len(candidates) : IsUniqueScalarColumn(rows, candidates[i])}
           first == SelectInSeq(candidates, LAMBDA c : IsUniqueScalarColumn(rows, c))
<1>0. Len(candidates) \in Nat
  BY CloneAssumption, KeyCandidatesAssumption
<1>1. I \in SUBSET Nat /\ \A i \in I : i >= 1
  BY <1>0
<1>2. first = IF I # {} THEN Min(I) ELSE 0
  BY DEF SelectInSeq
<1>3. CASE rows = <<>>
  <2>1. I = {}
    BY <1>3 DEF IsUniqueScalarColumn
  <2> QED
    BY <1>2, <2>1 DEF InferPrimaryKey
<1>4. CASE rows # <<>>
  <2>1. IsUniqueScalarColumn(rows, IdColumn)
    BY <1>4 DEF IsUniqueScalarColumn, IsClonable, KeysDistinct, ScalarKey, Range
  <2>2. 1 \in I
    BY <1>0, <2>1 DEF CloneKeyedById
  <2>3. Min(I) \in I /\ Min(I) <= 1
    BY <1>1, <2>2, MinBounds
  <2>4. first = 1
    BY <1>1, <1>2, <2>2, <2>3
  <2> QED
    BY <2>4 DEF InferPrimaryKey, CloneKeyedById
<1> QED
  BY <1>3, <1>4

LEMMA InferredIsKeyed ==
    ASSUME CloneKeyedById, NEW docs, Cloned \in DOMAIN docs => IsClonable(docs[Cloned])
    PROVE  IsKeyedById(InferSchema(docs))
<1> SUFFICES ASSUME Cloned \in DOMAIN InferSchema(docs)
             PROVE  InferSchema(docs)[Cloned].primaryKey \in {NoKey, IdColumn}
  BY DEF IsKeyedById
<1>1. /\ Cloned \in DOMAIN docs /\ docs[Cloned] # NoTable
      /\ InferSchema(docs)[Cloned].primaryKey = InferTable(Cloned, docs[Cloned]).primaryKey
  BY InferredSchema
<1>2. InferSchema(docs)[Cloned].primaryKey = InferPrimaryKey(Cloned, docs[Cloned])
  BY <1>1 DEF InferTable
<1> QED
  BY <1>1, <1>2, ClonableKey

LEMMA MergedIsKeyed ==
    ASSUME NEW o, IsOverlay(o), IsKeyedById(o), NEW i, IsSchema(i), IsKeyedById(i),
           MergeSchemas(o, i) # MergeError
    PROVE  IsKeyedById(MergeSchemas(o, i))
<1> DEFINE v == Overlaid(o, i)
           w == WithReferences(o, v)
<1>1. /\ IsSchema(v) /\ DOMAIN v = DOMAIN i \cup DOMAIN o
      /\ \A t \in DOMAIN v :
             v[t].primaryKey = IF t \in DOMAIN o /\ o[t].primaryKey # NoKey
                               THEN o[t].primaryKey ELSE Base(i, t).primaryKey
  <2>1. IsOverlaid(v, o, i)
    BY OverlaidIs
  <2> HIDE DEF v
  <2> QED
    BY <2>1 DEF IsOverlaid
<1>2. /\ IsSchema(w) /\ DOMAIN w = DOMAIN v
      /\ \A t \in DOMAIN v : w[t].primaryKey = v[t].primaryKey
  <2> HIDE DEF v
  <2> QED
    BY <1>1, WithReferencesIs
<1>3. MergeSchemas(o, i) = DeriveManyToMany(w)
  BY DEF MergeSchemas
<1>4. Base(i, Cloned).primaryKey \in {NoKey, IdColumn}
  BY DEF Base, EmptyTable, IsKeyedById
<1> HIDE DEF v, w
<1>5. /\ DOMAIN DeriveManyToMany(w) = DOMAIN w
      /\ \A t \in DOMAIN w : DeriveManyToMany(w)[t].primaryKey = w[t].primaryKey
  BY <1>2, DeriveKeeps DEF IsSchema
<1> QED
  BY <1>1, <1>2, <1>3, <1>4, <1>5 DEF IsKeyedById

LEMMA ExportIsKeyed ==
    ASSUME NEW o, NEW tables, IsKeyedById(tables) PROVE IsKeyedById(Export(o, tables))
  BY DEF IsKeyedById, Export, DeclaredTable

LEMMA NoOverlayIsKeyed == IsKeyedById(NoOverlay)
  BY DEF NoOverlay, IsKeyedById

LEMMA AdoptedIsKeyed ==
    ASSUME KeyInv, IsOverlay(overlay), AdoptInferred(inferred'), IsSchema(inferred'),
           IsKeyedById(inferred')
    PROVE  IsKeyedById(merged')
  BY MergedIsKeyed DEF AdoptInferred, KeyInv

-----------------------------------------------------------------------------
(***************************************************************************)
(* Changes of others: the watcher's, and those of a server that is no      *)
(* clone.                                                                  *)
(***************************************************************************)

LEMMA KeysKept ==
    ASSUME CloneKeyedById, EffectiveInv, KeyInv, IsKeyedById(inferred'), IsSchema(inferred'),
           [Next]_vars
    PROVE  KeyInv'
<1>1. IsOverlay(overlay) /\ IsOverlay(schemaFile)
  BY DEF EffectiveInv
<1>2. IsKeyedById(inferred)'
  BY DEF IsKeyedById
<1>3. CASE AdoptInferred(inferred') /\ UNCHANGED <<overlay, schemaFile>>
  <2>1. IsKeyedById(merged')
    BY <1>1, <1>3, AdoptedIsKeyed
  <2> QED
    BY <1>2, <1>3, <2>1 DEF KeyInv, IsKeyedById
<1>4. ASSUME NEW declared, IsOverlay(declared), IsKeyedById(declared),
             AdoptDeclared(declared, inferred), UNCHANGED inferred,
             schemaFile' \in {schemaFile, declared}
      PROVE  KeyInv'
  <2>1. IsKeyedById(merged') /\ overlay' = declared
    BY <1>4, MergedIsKeyed DEF AdoptDeclared, KeyInv
  <2> QED
    BY <1>2, <1>4, <2>1 DEF KeyInv, IsKeyedById
<1>5. ASSUME NEW req \in Request, UpdateItem(req) PROVE KeyInv'
  BY <1>3, <1>5 DEF UpdateItem, AdoptInferred
<1>6. ASSUME NEW t \in Table, EditFile(t) PROVE KeyInv'
  BY <1>3, <1>6 DEF EditFile, AdoptInferred
<1>7. ASSUME NEW t \in Transient, CreateResource(t) \/ DeleteResource(t) PROVE KeyInv'
  BY <1>3, <1>7 DEF CreateResource, DeleteResource, AdoptInferred
<1>8. ASSUME NEW declared \in Overlays, SaveDeclaredSchema(declared) PROVE KeyInv'
  BY <1>4, <1>8, OverlaysAssumption DEF SaveDeclaredSchema, WriteSchemaFile, CloneKeyedById
<1>9. CASE SaveSchema
  <2>1. schemaFile' = Export(overlay, merged) /\ UNCHANGED <<overlay, inferred, merged>>
    BY <1>9 DEF SaveSchema, WriteSchemaFile
  <2>2. IsKeyedById(schemaFile')
    BY <2>1, ExportIsKeyed DEF KeyInv
  <2> QED
    BY <2>1, <2>2 DEF KeyInv, IsKeyedById
<1>10. CASE InferAndSaveSchema
  <2> DEFINE tables == InferSchema(documents)
             declared == Export(NoOverlay, tables)
             result == MergeSchemas(declared, tables)
  <2>1. inferred' = tables /\ schemaFile' = declared
    BY <1>10 DEF InferAndSaveSchema, WriteSchemaFile, AdoptInferred
  <2>2. IsOverlay(declared) /\ IsKeyedById(declared)
    BY <2>1, ExportIsOverlay, ExportIsKeyed
  <2>3. CASE AdoptInferred(tables) /\ UNCHANGED overlay
    <3>1. IsKeyedById(merged')
      BY <1>1, <2>1, <2>3, AdoptedIsKeyed
    <3> QED
      BY <1>2, <2>1, <2>2, <2>3, <3>1 DEF KeyInv, IsKeyedById
  <2>4. CASE overlay' = declared /\ merged' = result /\ result # MergeError
    <3>1. IsKeyedById(merged')
      BY <2>1, <2>2, <2>4, MergedIsKeyed
    <3> QED
      BY <1>2, <2>1, <2>2, <2>4, <3>1 DEF KeyInv, IsKeyedById
  <2> QED
    BY <1>10, <2>3, <2>4 DEF InferAndSaveSchema
<1>11. CASE LoadSchemaFile
  BY <1>1, <1>4, <1>11 DEF LoadSchemaFile, KeyInv
<1>12. CASE UNCHANGED vars
  BY <1>12 DEF vars, KeyInv, IsKeyedById
<1> QED
  BY <1>5, <1>6, <1>7, <1>8, <1>9, <1>10, <1>11, <1>12 DEF Next

\* Who is no clone does not get the resource.
LEMMA NotCloned ==
    ASSUME CloneApart, ~IsCloned, [Next]_vars PROVE ~IsCloned'
<1>1. ASSUME NEW req \in Request, UpdateItem(req) PROVE ~IsCloned'
  BY <1>1 DEF UpdateItem, IsCloned
<1>2. ASSUME NEW t \in Table, EditFile(t) PROVE ~IsCloned'
  BY <1>2 DEF EditFile, IsCloned
<1>3. ASSUME NEW t \in Transient, CreateResource(t) \/ DeleteResource(t) PROVE ~IsCloned'
  BY <1>3 DEF CreateResource, DeleteResource, IsCloned, CloneApart
<1>4. UNCHANGED documents => ~IsCloned'
  BY DEF IsCloned
<1> QED
  BY <1>1, <1>2, <1>3, <1>4
     DEF Next, vars, SaveDeclaredSchema, SaveSchema, InferAndSaveSchema, LoadSchemaFile

\* The watcher does not change it.
LEMMA WatcherLeavesClone ==
    ASSUME CloneApart, WatcherChange
    PROVE  /\ IsCloned' <=> IsCloned
           /\ IsCloned => Local' = Local
           /\ [Next]_vars
<1>1. ASSUME NEW t \in Table, EditFile(t) PROVE (IsCloned' <=> IsCloned) /\ (IsCloned => Local' = Local)
  <2>1. t # Cloned
    BY <1>1 DEF EditFile, CloneApart
  <2> QED
    BY <1>1, <2>1 DEF EditFile, IsCloned, Local
<1>2. LoadSchemaFile => UNCHANGED documents
  BY DEF LoadSchemaFile
<1> QED
  BY <1>1, <1>2 DEF WatcherChange, IsCloned, Local, Next

\* The steps as this part sees them.
Elsewhere == UNCHANGED vars /\ UNCHANGED cloneVars /\ UNCHANGED cloneMode
LocalStep == ~cloneMode /\ [Next]_vars /\ UNCHANGED cloneVars /\ UNCHANGED cloneMode
EditStep == WatcherChange /\ UNCHANGED cloneMode
StoreStep(c) == cloneMode /\ Store(c) /\ UNCHANGED cloneMode
FetchStep(c) ==
    /\ UNCHANGED vars /\ UNCHANGED cloneMode /\ UNCHANGED remote /\ UNCHANGED stored
    /\ (\E request \in Fetch : Ask(c, request)) \/ Answer(c) \/ Choose(c) \/ Skip(c)
RemoteStep == UNCHANGED vars /\ UNCHANGED cloneMode /\ RemoteChange

LEMMA CloneCases ==
    ASSUME [LiveNext]_liveVars
    PROVE  \/ Elsewhere \/ LocalStep \/ EditStep \/ RemoteStep
           \/ \E c \in Client : StoreStep(c) \/ FetchStep(c)
<1>1. ASSUME NEW a \in Handler, LocalChange(a) PROVE LocalStep
  <2>1. UNCHANGED cloneMode
    BY <1>1 DEF LocalChange, Begin, BeginSave, config
  <2>2. [Next]_vars
    BY <1>1 DEF LocalChange, Next
  <2> QED
    BY <1>1, <2>1, <2>2 DEF LocalChange, LocalStep
<1>2. ASSUME NEW c \in Client, CloneChange(c) PROVE StoreStep(c)
  BY <1>2 DEF CloneChange, StoreStep, Begin, config
<1>3. ASSUME NEW c \in Client, CloneStep(c) PROVE FetchStep(c)
  BY <1>3 DEF CloneStep, FetchStep, config, Ask, Answer, Choose, Skip
<1>4. ChangeRemote => RemoteStep
  BY DEF ChangeRemote, RemoteStep, config
<1>5. WatcherChange => EditStep
  BY DEF WatcherChange, EditStep, Begin, config
<1>6. ASSUME NEW a \in Actor, InvalidateCache(a) \/ EmitEvents(a) PROVE Elsewhere
  BY <1>6 DEF InvalidateCache, EmitEvents, Elsewhere, config
<1>7. ASSUME NEW g \in Reader, ServeGraphql(g) PROVE Elsewhere
  BY <1>7 DEF ServeGraphql, Elsewhere, config
<1>8. ShowPage => Elsewhere
  BY DEF ShowPage, Elsewhere, config
<1>9. UNCHANGED liveVars => Elsewhere
  BY DEF liveVars, Elsewhere
<1> QED
  BY <1>1, <1>2, <1>3, <1>4, <1>5, <1>6, <1>7, <1>8, <1>9 DEF LiveNext

-----------------------------------------------------------------------------
(***************************************************************************)
(* Fetching and storing.                                                   *)
(***************************************************************************)

\* What FetchStep leaves of the invariant for the other clients.
LEMMA OtherFetches ==
    ASSUME \A d \in Client : FetchOK(fetches[d]), IsCloned => IsCloned', NEW c \in Client,
           \A d \in Client \ {c} : fetches'[d] = fetches[d], FetchOK(fetches[c])'
    PROVE  \A d \in Client : FetchOK(fetches[d])'
  BY DEF FetchOK

LEMMA IdleIsOK == FetchOK(IdleFetch) /\ FetchOK(IdleFetch)'
  BY DEF FetchOK, IdleFetch

LEMMA FetchKeepsOK ==
    ASSUME CloneApart, CloneInv, NEW c \in Client, FetchStep(c)
    PROVE  \A d \in Client : FetchOK(fetches[d])'
<1>1. IsCloned' <=> IsCloned
  BY DEF FetchStep, vars, IsCloned
<1> SUFFICES FetchOK(fetches[c])' /\ \A d \in Client \ {c} : fetches'[d] = fetches[d]
  BY <1>1, OtherFetches DEF CloneInv
<1>2. DOMAIN fetches = Client /\ FetchOK(fetches[c])
  BY DEF CloneInv, FetchesOK
<1>3. DOMAIN fetches[c] = {"pc", "request", "rows", "exists"}
  BY DEF CloneInv, FetchesOK
<1>4. ASSUME NEW request \in Fetch, Ask(c, request)
      PROVE  FetchOK(fetches[c])' /\ \A d \in Client \ {c} : fetches'[d] = fetches[d]
  <2>1. fetches'[c].pc = "answer" /\ fetches'[c].request = request
    BY <1>2, <1>3, <1>4 DEF Ask
  <2> QED
    BY <1>2, <1>4, <2>1 DEF Ask, FetchOK
<1>5. CASE Answer(c)
  <2> DEFINE request == fetches[c].request
             position == FindIndex(remote, IdColumn, request.id)
             item == With(remote[position], IdColumn, CoerceId(<<>>, Cloned, request.id))
  <2>1. request \in Fetch
    BY <1>2, <1>5 DEF Answer, FetchOK
  <2>2. \A d \in Client \ {c} : fetches'[d] = fetches[d]
    BY <1>2, <1>5 DEF Answer
  <2>3. \/ fetches'[c] = IdleFetch
        \/ /\ fetches'[c].pc = "choose" /\ fetches'[c].request = request
           /\ \/ request.kind = "collection" /\ fetches'[c].rows = remote
              \/ position # 0 /\ fetches'[c].rows = <<item>>
    BY <1>2, <1>3, <1>5 DEF Answer
  <2>4. IsClonable(remote)
    BY DEF CloneInv, CloneApart
  <2>5. position # 0 => IsKeyed(item, request.id)
    <3>1. position # 0 => IsRow(remote[position])
      BY <2>4, FindIndexIs DEF IsClonable, IsArray
    <3> QED
      BY <3>1, ItemIsKeyed
  <2> HIDE DEF request, position, item
  <2>6. CASE fetches'[c] = IdleFetch
    BY <2>2, <2>6, IdleIsOK DEF FetchOK
  <2>7. CASE fetches'[c].pc = "choose" /\ fetches'[c].request = request
             /\ request.kind = "collection" /\ fetches'[c].rows = remote
    <3>1. IsClonable(fetches'[c].rows)
      BY <2>4, <2>7
    <3> QED
      BY <2>1, <2>2, <2>7, <3>1 DEF FetchOK
  <2>8. CASE fetches'[c].pc = "choose" /\ fetches'[c].request = request
             /\ position # 0 /\ fetches'[c].rows = <<item>>
    <3>1. IsClonable(fetches'[c].rows)
      BY <2>5, <2>8, OneRowIsClonable
    <3>2. Len(fetches'[c].rows) = 1 /\ fetches'[c].rows[1][IdColumn].text = request.id
      BY <2>5, <2>8 DEF IsKeyed
    <3> QED
      BY <2>1, <2>2, <2>8, <3>1, <3>2 DEF FetchOK
  <2> QED
    BY <2>2, <2>3, <2>6, <2>7, <2>8
<1>6. CASE Choose(c)
  <2>1. \A d \in Client \ {c} : fetches'[d] = fetches[d]
    BY <1>2, <1>6 DEF Choose
  <2>2. \/ fetches'[c] = IdleFetch
        \/ /\ fetches'[c].pc = "store" /\ fetches'[c].exists = IsCloned
           /\ fetches'[c].request = fetches[c].request /\ fetches'[c].rows = fetches[c].rows
    BY <1>2, <1>3, <1>6 DEF Choose
  <2>3. CASE fetches'[c] = IdleFetch
    BY <2>1, <2>3, IdleIsOK DEF FetchOK
  <2>4. CASE fetches'[c] # IdleFetch
    BY <1>1, <1>2, <1>6, <2>1, <2>2, <2>4 DEF Choose, FetchOK
  <2> QED
    BY <2>1, <2>3, <2>4
<1>7. CASE Skip(c)
  BY <1>2, <1>7, IdleIsOK DEF Skip, FetchOK
<1> QED
  BY <1>4, <1>5, <1>6, <1>7 DEF FetchStep

\* What is stored can be stored, and has what was stored before.
LEMMA StoredRows ==
    ASSUME CloneInv, NEW c \in Client, Store(c)
    PROVE  LET fetch == fetches[c]
               rows == RowsToStore(fetch)
           IN  /\ IsClonable(rows)
               /\ fetch.request.kind = "item" =>
                      \E i \in DOMAIN rows : rows[i][IdColumn].text = fetch.request.id
               /\ fetch.request.kind = "item" /\ IsCloned =>
                      \A i \in DOMAIN Local : \E j \in DOMAIN rows :
                          rows[j][IdColumn].text = Local[i][IdColumn].text
<1> DEFINE fetch == fetches[c]
           rows == RowsToStore(fetch)
<1>1. /\ FetchOK(fetch) /\ fetch.pc = "store" /\ IsStorable(fetch)
  BY DEF CloneInv, Store
<1>2. /\ IsClonable(fetch.rows)
      /\ fetch.request.kind = "item" =>
             Len(fetch.rows) = 1 /\ fetch.rows[1][IdColumn].text = fetch.request.id
  BY <1>1 DEF FetchOK
<1>3. CASE IsMerged(fetch)
  <2>1. IsCloned /\ IsClonable(Local) /\ fetch.request.kind = "item"
    BY <1>1, <1>3 DEF IsMerged, FetchOK, CloneInv, LocalOK
  <2>2. Head(fetch.rows) = fetch.rows[1] /\ 1 \in DOMAIN fetch.rows
    BY <1>2, <2>1 DEF IsClonable, IsArray
  <2>3. IsKeyed(Head(fetch.rows), fetch.request.id)
    BY <1>2, <2>1, <2>2 DEF IsClonable, IsArray, IsKeyed
  <2>4. rows = WithItem(Local, fetch.request.id, Head(fetch.rows))
    BY <1>3 DEF RowsToStore
  <2> HIDE DEF rows
  <2> QED
    BY <2>1, <2>3, <2>4, WithItemIs DEF rows
<1>4. CASE ~IsMerged(fetch)
  <2>1. rows = fetch.rows
    BY <1>4 DEF RowsToStore
  <2>2. fetch.request.kind = "item" => 1 \in DOMAIN rows /\ ~IsCloned
    BY <1>1, <1>2, <1>4, <2>1 DEF IsMerged, IsStorable, IsClonable, IsArray
  <2> HIDE DEF rows
  <2> QED
    BY <1>2, <2>1, <2>2 DEF rows
<1> QED
  BY <1>3, <1>4

\* The resource after it.
LEMMA StoreIs ==
    ASSUME CloneInv, NEW c \in Client, Store(c)
    PROVE  /\ IsCloned' /\ Local' = RowsToStore(fetches[c])
           /\ EffectiveInv'
<1> DEFINE fetch == fetches[c]
           rows == RowsToStore(fetch)
           new == [t \in DOMAIN documents \cup {Cloned} |->
                      IF t = Cloned THEN rows ELSE documents[t]]
<1>1. /\ documents' = new
      /\ AdoptInferred(IF fetch.exists THEN ReplaceTable(inferred, Cloned, rows)
                       ELSE InferSchema(documents'))
      /\ UNCHANGED <<overlay, schemaFile>>
  BY DEF Store
<1>2. DOMAIN documents' = DOMAIN documents \cup {Cloned} /\ documents'[Cloned] = rows
  BY <1>1
<1>3. IsFunction(documents')
  BY <1>1 DEF IsFunction
<1>4. Inference'
  <2>1. CASE fetch.exists
    <3>1. Cloned \in DOMAIN documents
      BY <2>1 DEF CloneInv, FetchOK, Store, IsCloned
    <3>2. documents' = [documents EXCEPT ![Cloned] = rows]
      BY <1>1, <3>1 DEF CloneInv, EffectiveInv, Inference, IsFunction
    <3>3. AdoptInferred(ReplaceTable(inferred, Cloned, documents'[Cloned]))
      BY <1>1, <1>2, <2>1
    <3> HIDE DEF rows, new
    <3> QED
      BY <3>1, <3>2, <3>3, InferenceOne DEF CloneInv, EffectiveInv
  <2>2. CASE ~fetch.exists
    BY <1>1, <1>3, <2>2 DEF AdoptInferred, Inference, IncrementalInference
  <2> QED
    BY <2>1, <2>2
<1>5. DOMAIN documents' \subseteq Table
  BY <1>2, CloneAssumption DEF CloneInv, EffectiveInv
<1>6. IsSchema(inferred')
  BY <1>4, <1>5, InferredIsSchema DEF Inference, IncrementalInference
<1>7. AdoptInferred(inferred')
  BY <1>1 DEF AdoptInferred
<1>8. /\ IsEffectiveSchema(merged')
      /\ IsCurrent' => merged' = MergeSchemas(overlay, inferred)'
  BY <1>1, <1>6, <1>7, Adopted DEF CloneInv
<1>9. EffectiveInv'
  BY <1>1, <1>4, <1>5, <1>8 DEF CloneInv, EffectiveInv
<1> QED
  BY <1>2, <1>9 DEF IsCloned, Local

-----------------------------------------------------------------------------
(***************************************************************************)
(* Every step.                                                             *)
(***************************************************************************)

LEMMA CloneInvInit == ASSUME CloneApart, LiveInit PROVE CloneInv
<1>1. Init
  BY DEF LiveInit, Init
<1>2. EffectiveInv
  BY <1>1, EffectiveInit
<1>3. ~IsCloned
  BY DEF LiveInit, StartsWith, IsCloned, CloneApart
<1>4. FetchesOK
  BY DEF LiveInit, CloneInit, IdleFetch, FetchesOK
<1>5. \A c \in Client : FetchOK(fetches[c])
  BY IdleIsOK DEF LiveInit, CloneInit
<1> QED
  BY <1>2, <1>3, <1>4, <1>5 DEF CloneInv, LocalOK, LiveInit, CloneInit

LEMMA CloneInvNext == ASSUME CloneApart, CloneInv, [LiveNext]_liveVars PROVE CloneInv'
<1>1. FetchesOK'
  <2>1. UNCHANGED liveVars => FetchesOK'
    BY DEF liveVars, cloneVars, CloneInv, FetchesOK
  <2> QED
    BY <2>1, FetchesKept DEF CloneInv
<1>2. CASE Elsewhere
  <2>1. EffectiveInv'
    BY <1>2, EffectiveNext DEF CloneInv, Elsewhere
  <2>2. UNCHANGED <<documents, cloneMode, remote, fetches>>
    BY <1>2 DEF Elsewhere, vars, cloneVars
  <2> QED
    BY <1>1, <2>1, <2>2 DEF CloneInv, LocalOK, FetchOK, IsCloned, Local
<1>3. CASE LocalStep
  <2>1. EffectiveInv'
    BY <1>3, EffectiveNext DEF CloneInv, LocalStep
  <2>2. ~IsCloned /\ ~IsCloned'
    BY <1>3, NotCloned DEF LocalStep, CloneInv, LocalOK
  <2>3. UNCHANGED <<remote, fetches>>
    BY <1>3 DEF LocalStep, cloneVars
  <2> QED
    BY <1>1, <2>1, <2>2, <2>3 DEF CloneInv, LocalOK, FetchOK
<1>4. CASE EditStep
  <2>1. /\ IsCloned' <=> IsCloned
        /\ IsCloned => Local' = Local
        /\ [Next]_vars
    BY <1>4, WatcherLeavesClone DEF EditStep
  <2>2. EffectiveInv'
    BY <2>1, EffectiveNext DEF CloneInv
  <2>3. UNCHANGED <<remote, fetches, cloneMode>>
    BY <1>4 DEF EditStep, WatcherChange
  <2> QED
    BY <1>1, <2>1, <2>2, <2>3 DEF CloneInv, LocalOK, FetchOK
<1>5. CASE RemoteStep
  <2>1. EffectiveInv'
    BY <1>5, EffectiveNext DEF CloneInv, RemoteStep
  <2>2. UNCHANGED <<documents, cloneMode, fetches>> /\ remote' \in RemoteRows
    BY <1>5 DEF RemoteStep, RemoteChange, vars
  <2> QED
    BY <1>1, <2>1, <2>2 DEF CloneInv, LocalOK, FetchOK, IsCloned, Local
<1>6. ASSUME NEW c \in Client, FetchStep(c) PROVE CloneInv'
  <2>1. EffectiveInv'
    BY <1>6, EffectiveNext DEF CloneInv, FetchStep
  <2>2. UNCHANGED <<documents, cloneMode, remote>>
    BY <1>6 DEF FetchStep, vars
  <2>3. \A d \in Client : FetchOK(fetches[d])'
    BY <1>6, FetchKeepsOK
  <2> QED
    BY <1>1, <2>1, <2>2, <2>3 DEF CloneInv, LocalOK, IsCloned, Local
<1>7. ASSUME NEW c \in Client, StoreStep(c) PROVE CloneInv'
  <2>1. Store(c) /\ cloneMode /\ cloneMode'
    BY <1>7 DEF StoreStep
  <2>2. IsCloned' /\ Local' = RowsToStore(fetches[c]) /\ EffectiveInv'
    BY <2>1, StoreIs
  <2>3. IsClonable(Local')
    BY <2>1, <2>2, StoredRows
  <2>4. fetches' = [fetches EXCEPT ![c] = IdleFetch] /\ UNCHANGED remote
    BY <2>1 DEF Store
  <2>5. fetches'[c] = IdleFetch /\ \A d \in Client \ {c} : fetches'[d] = fetches[d]
    BY <2>4 DEF CloneInv, FetchesOK
  <2>6. FetchOK(fetches[c])'
    BY <2>5, IdleIsOK DEF FetchOK
  <2>7. \A d \in Client : FetchOK(fetches[d])'
    BY <2>2, <2>5, <2>6, OtherFetches DEF CloneInv
  <2> QED
    BY <1>1, <2>1, <2>2, <2>3, <2>4, <2>7 DEF CloneInv, LocalOK
<1> QED
  BY <1>2, <1>3, <1>4, <1>5, <1>6, <1>7, CloneCases

LEMMA CloneInvariance == ASSUME CloneApart PROVE LiveSpec => []CloneInv
  BY CloneInvInit, CloneInvNext, PTL DEF LiveSpec

\* Whatever fetches of one item and of all overlap, and however the remote
\* server changes in between, a clone of rows with different ids has no id
\* twice (cache_item, cache_collection).
THEOREM ClonedIdsStayDistinct ==
    ASSUME CloneApart PROVE LiveSpec => []ClonedIdsDistinct
<1>1. CloneInv => ClonedIdsDistinct
  BY DEF CloneInv, LocalOK, IsClonable, ClonedIdsDistinct
<1> QED
  BY <1>1, CloneInvariance, PTL

LEMMA StoredInit ==
    ASSUME CloneApart, CloneKeyedById, LiveInit PROVE KeyInv /\ StoredInv
<1>1. CloneInv
  BY CloneInvInit
<1>2. StoredInv
  BY DEF LiveInit, CloneInit, StoredInv
<1>3. IsKeyedById(overlay) /\ IsKeyedById(schemaFile)
  BY NoOverlayIsKeyed DEF LiveInit, StartsWith, CloneKeyedById
<1>4. IsKeyedById(inferred) /\ IsSchema(inferred)
  BY <1>1, InferredIsKeyed, InferredIsSchema
     DEF CloneInv, LocalOK, EffectiveInv, Inference, IncrementalInference, IsCloned, Local
<1>5. IsKeyedById(merged)
  BY <1>1, <1>3, <1>4, MergedIsKeyed DEF LiveInit, StartsWith, CloneInv, EffectiveInv
<1> QED
  BY <1>2, <1>3, <1>4, <1>5 DEF KeyInv

LEMMA StoredNext ==
    ASSUME CloneApart, CloneKeyedById, CloneInv, CloneInv', KeyInv, StoredInv,
           [LiveNext]_liveVars
    PROVE  KeyInv' /\ StoredInv'
<1>1. IsKeyedById(inferred') /\ IsSchema(inferred')
  <2>1. /\ inferred' = InferSchema(documents') /\ DOMAIN documents' \subseteq Table
        /\ Cloned \in DOMAIN documents' => IsClonable(documents'[Cloned])
    BY DEF CloneInv, LocalOK, EffectiveInv, Inference, IncrementalInference, IsCloned, Local
  <2>2. IsSchema(inferred')
    BY <2>1, InferredIsSchema
  <2>3. IsKeyedById(inferred')
    BY <2>1, InferredIsKeyed
  <2> QED
    BY <2>2, <2>3
<1>2. CASE Elsewhere
  <2>1. KeyInv'
    BY <1>1, <1>2, KeysKept DEF CloneInv, Elsewhere
  <2>2. UNCHANGED <<documents, stored>>
    BY <1>2 DEF Elsewhere, vars, cloneVars
  <2> QED
    BY <2>1, <2>2 DEF StoredInv, Found, IsCloned, Local
<1>3. CASE LocalStep
  <2>1. KeyInv'
    BY <1>1, <1>3, KeysKept DEF CloneInv, LocalStep
  <2>2. ~IsCloned /\ UNCHANGED stored
    BY <1>3 DEF LocalStep, CloneInv, LocalOK, cloneVars
  <2> QED
    BY <2>1, <2>2 DEF StoredInv, Found
<1>4. CASE EditStep
  <2>1. [Next]_vars
    BY <1>4, WatcherLeavesClone DEF EditStep
  <2>2. KeyInv'
    BY <1>1, <2>1, KeysKept DEF CloneInv
  <2>3. stored' = {}
    BY <1>4 DEF EditStep, WatcherChange
  <2> QED
    BY <2>2, <2>3 DEF StoredInv
<1>5. CASE RemoteStep \/ \E c \in Client : FetchStep(c)
  <2>1. KeyInv'
    BY <1>1, <1>5, KeysKept DEF CloneInv, RemoteStep, FetchStep
  <2>2. UNCHANGED <<documents, stored>>
    BY <1>5 DEF RemoteStep, RemoteChange, FetchStep, vars
  <2> QED
    BY <2>1, <2>2 DEF StoredInv, Found, IsCloned, Local
<1>6. ASSUME NEW c \in Client, StoreStep(c) PROVE KeyInv' /\ StoredInv'
  <2> DEFINE fetch == fetches[c]
             rows == RowsToStore(fetch)
  <2>1. Store(c)
    BY <1>6 DEF StoreStep
  <2>2. AdoptInferred(inferred') /\ UNCHANGED <<overlay, schemaFile>>
    BY <2>1 DEF Store, AdoptInferred
  <2>3. IsKeyedById(merged')
    BY <1>1, <2>2, AdoptedIsKeyed DEF CloneInv, EffectiveInv
  <2>4. KeyInv'
    BY <1>1, <2>2, <2>3 DEF KeyInv, IsKeyedById
  <2>5. IsCloned' /\ Local' = rows
    BY <2>1, StoreIs
  <2>6. stored' = IF fetch.request.kind = "item" THEN stored \cup {fetch.request.id} ELSE {}
    BY <2>1 DEF Store
  <2>7. ASSUME fetch.request.kind = "item", NEW id \in stored'
        PROVE  \E j \in DOMAIN rows : rows[j][IdColumn].text = id
    <3>1. CASE id = fetch.request.id
      BY <2>1, <2>7, <3>1, StoredRows
    <3>2. CASE id \in stored
      BY <2>1, <2>7, <3>2, StoredRows DEF StoredInv, Found
    <3> QED
      BY <2>6, <2>7, <3>1, <3>2
  <2> HIDE DEF rows, fetch
  <2>8. StoredInv'
    BY <2>5, <2>6, <2>7 DEF StoredInv, Found
  <2> QED
    BY <2>4, <2>8
<1> QED
  BY <1>2, <1>3, <1>4, <1>5, <1>6, CloneCases

\* An item that was fetched and stored is found by GET, until all rows are
\* fetched or somebody else writes the folder (cache_item, create_resource,
\* build_id_index).
THEOREM StoredItemsStay ==
    ASSUME CloneApart, CloneKeyedById PROVE LiveSpec => []StoredItemsFound
<1>1. CloneInv /\ KeyInv /\ StoredInv => StoredItemsFound
  <2> SUFFICES ASSUME CloneInv, KeyInv, StoredInv, NEW id \in stored
               PROVE  IsCloned /\ IndexedPosition(Local, KeyName(merged, Cloned), id) # 0
    BY DEF StoredItemsFound
  <2>1. IsCloned /\ IsClonable(Local)
    BY DEF StoredInv, Found, CloneInv, LocalOK
  <2>2. KeyName(merged, Cloned) = IdColumn
    BY DEF KeyInv, IsKeyedById, KeyName
  <2>3. PICK i \in DOMAIN Local : Local[i][IdColumn].text = id
    BY DEF StoredInv, Found
  <2>4. /\ IdMatches(Local[i], IdColumn, id)
        /\ \A j \in DOMAIN Local : IdMatches(Local[j], IdColumn, id) => j = i
    BY <2>1, <2>3 DEF IsClonable, KeysDistinct, IdMatches
  <2>5. IndexedPosition(Local, IdColumn, id) = i
    BY <2>1, <2>4, OnlyMatch DEF IsClonable
  <2>6. i # 0
    BY <2>1, <2>3 DEF IsClonable, IsArray
  <2> QED
    BY <2>1, <2>2, <2>5, <2>6
<1> QED
  BY <1>1, CloneInvariance, StoredInit, StoredNext, PTL DEF LiveSpec

=============================================================================
