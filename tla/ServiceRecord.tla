---------------------------- MODULE ServiceRecord ----------------------------
(***************************************************************************)
(* The entry of one service in the registry of one gateway, through the    *)
(* POSTs and DELETEs of its life: ApronService with its providers, as      *)
(* new_update_service merges the bodies into it, and what is read from it  *)
(* afterwards (the arguments of the market contract, the url of a provider *)
(* for a forwarded request).                                               *)
(*                                                                         *)
(* Every field but the id is an Option.  All plain fields are merged alike *)
(* and a record is a function from field names to values or None.          *)
(***************************************************************************)
EXTENDS Naturals, Sequences, SequencesExt

CONSTANTS
    Local,      \* the peer id of this gateway
    None,       \* an Option that is None
    NoEntry,    \* "no entry in the registry"
    Panic,      \* an unwrap failed
    Values,     \* what a field may hold
    Bodies,     \* request bodies of the POSTs, services as a client sends them
    MaxPosts    \* bound on the POSTs between two DELETEs

\* The fields of ApronService and of ApronServiceProvider.
ServiceFields ==
    {"peer_id", "name", "desc", "logo", "usage", "is_deleted", "price_plan", "user_id"}
ProviderFields ==
    {"id", "name", "desc", "base_url", "schema", "created_at", "updated_at", "extra_detail"}

HttpSchemas == {"http", "https"}    \* schemas that start with "http"
WsSchemas == {"ws", "wss"}          \* and with "ws"

ProviderRecords == [ProviderFields -> Values \cup {None}]

ServiceRecords ==
    [fields : [ServiceFields -> Values \cup {None}],
     providers : Seq(ProviderRecords) \cup {None}]

\* The arguments of the market contract's add_service, and their defaults.
Arguments ==
    {"name", "desc", "logo", "createTime", "providerName", "schema", "pricePlan", "declaimer"}
Texts == Values \cup {"", "123456789"}
Listings ==
    [name : Texts, desc : Texts, logo : Texts, createTime : Texts,
     providerName : Texts, schema : Texts, pricePlan : Texts, declaimer : Texts]

ASSUME BodiesAssumption == Bodies \subseteq ServiceRecords
ASSUME ValuesAssumption ==
    /\ Local \in Values
    /\ None \notin Values \cup HttpSchemas \cup WsSchemas \cup Seq(ProviderRecords)
ASSUME NoEntryAssumption == NoEntry \notin ServiceRecords
ASSUME PanicAssumption == Panic \notin {None} \cup Seq(Values) \cup Listings
ASSUME MaxPostsAssumption == MaxPosts \in Nat

VARIABLES
    entry,      \* what state::get finds
    posts,      \* the bodies since the entry was created, and
    sent,       \* their providers in the order in which they came, both history
    listing     \* the arguments of the last AddService command, or Panic

vars == <<entry, posts, sent, listing>>

-----------------------------------------------------------------------------
(* ApronServiceProvider::update and ApronService::update. *)

\* Mutated: fields are assigned although the body does not have them.
MergeErasing(old, new) ==
    [f \in DOMAIN old |->
        IF new[f] # None \/ f \in {"name", "base_url", "is_deleted"} THEN new[f] ELSE old[f]]

\* Each field of the body that is there replaces the old one.
Merge(old, new) == [f \in DOMAIN old |-> IF new[f] = None THEN old[f] ELSE new[f]]

\* Mutated: the loop goes on behind the first provider.
AddBehindFirst(providers, p) ==
    IF \E i \in DOMAIN providers : i > 1 /\ providers[i].id = p.id
    THEN [providers EXCEPT ![SelectInSeq(providers, LAMBDA q : q.id = p.id)] = Merge(@, p)]
    ELSE Append(providers, p)

\* One turn of the loop over the body's providers: the first provider with the
\* id is updated, a new id is pushed.  Providers without id share the id None.
AddProvider(providers, p) ==
    IF \E i \in DOMAIN providers : providers[i].id = p.id
    THEN [providers EXCEPT ![SelectInSeq(providers, LAMBDA q : q.id = p.id)] = Merge(@, p)]
    ELSE Append(providers, p)

\* merged[n] is what the loop has made of the old providers after n turns.
AddProviders(old, new) ==
    LET merged[n \in 0..Len(new)] ==
            IF n = 0 THEN old ELSE AddProvider(merged[n - 1], new[n])
    IN  merged[Len(new)]

MergeProviders(old, new) ==
    IF new = None THEN old
    ELSE IF old = None THEN new
    ELSE AddProviders(old, new)

Update(service, body) ==
    [fields |-> Merge(service.fields, body.fields),
     providers |-> MergeProviders(service.providers, body.providers)]

\* Mutated: the peer_id of the body is kept.
CreateAsTold(body) == body

\* A POST of an unknown id: the peer_id of the body is replaced.
Create(body) == [body EXCEPT !.fields.peer_id = Local]

-----------------------------------------------------------------------------
(* Readers of the entry. *)

ProvidersOf(service) == IF service.providers = None THEN <<>> ELSE service.providers

HasProvider(service) == service.providers # None /\ service.providers # <<>>

OrDefault(value, default) == IF value = None THEN default ELSE value

\* apronservice_to_args, without what is the same for all services: it unwraps
\* the providers, takes the first, and fills in what is missing.
apronservice_to_args(service) ==
    IF ~HasProvider(service) THEN Panic
    ELSE LET p == service.providers[1]
         IN  [name |-> OrDefault(service.fields.name, ""),
              desc |-> OrDefault(p.desc, ""),
              logo |-> OrDefault(service.fields.logo, ""),
              createTime |-> OrDefault(p.created_at, "123456789"),
              providerName |-> OrDefault(p.name, ""),
              schema |-> OrDefault(p.schema, ""),
              pricePlan |-> OrDefault(service.fields.price_plan, ""),
              declaimer |-> OrDefault(p.extra_detail, "")]

\* The url of the first provider whose schema is in the set, or None; its
\* base_url is unwrapped.
get_provider(service, schemas) ==
    IF service.providers = None THEN None
    ELSE LET i == SelectInSeq(service.providers, LAMBDA p : p.schema \in schemas)
         IN  IF i = 0 THEN None
             ELSE IF service.providers[i].base_url = None THEN Panic
             ELSE <<service.providers[i].schema, service.providers[i].base_url>>

get_http_provider(service) == get_provider(service, HttpSchemas)
get_ws_provider(service) == get_provider(service, WsSchemas)

-----------------------------------------------------------------------------

Init ==
    /\ entry = NoEntry
    /\ posts = <<>> /\ sent = <<>>
    /\ listing = Panic

\* new_update_service; the arguments of AddService are made after the entry was
\* stored and published.
Post(body) ==
    /\ Len(posts) < MaxPosts
    /\ entry' = IF entry = NoEntry THEN Create(body) ELSE Update(entry, body)
    /\ posts' = Append(posts, body)
    /\ sent' = sent \o ProvidersOf(body)
    /\ listing' = apronservice_to_args(entry')

\* delete_service; the market contract is not told.
Delete ==
    /\ entry # NoEntry
    /\ entry' = NoEntry
    /\ posts' = <<>> /\ sent' = <<>>
    /\ UNCHANGED listing

Next == Delete \/ \E body \in Bodies : Post(body)

Spec == Init /\ [][Next]_vars

-----------------------------------------------------------------------------
(* Properties. *)

\* The value of field f in the last of the chosen records that has it.
Latest(records, chosen, f) ==
    LET given == {i \in chosen : records[i][f] # None}
    IN  IF given = {} THEN None ELSE records[Max(given)][f]

\* The places of an id in a list of providers.
Places(providers, id) == {i \in DOMAIN providers : providers[i].id = id}

Ids(providers) == {providers[i].id : i \in DOMAIN providers}

DistinctIds(providers) ==
    \A i, j \in DOMAIN providers : providers[i].id = providers[j].id => i = j

\* One provider for each id of the list, in the order in which the ids come
\* first, each with the latest value of its fields.
MergedFrom(stored, list) ==
    /\ DistinctIds(stored)
    /\ Ids(stored) = Ids(list)
    /\ \A i \in DOMAIN stored, f \in ProviderFields :
          stored[i][f] = Latest(list, Places(list, stored[i].id), f)
    /\ \A i, j \in DOMAIN stored :
          i < j => Min(Places(list, stored[i].id)) < Min(Places(list, stored[j].id))

\* The first list of providers is stored as it came.
FirstList ==
    LET named == {i \in DOMAIN posts : posts[i].providers # None}
    IN  IF named = {} THEN <<>> ELSE posts[Min(named)].providers

\* However the bodies of a life are split over POSTs, each field of the service
\* is that of the last body that had it (peer_id: this gateway, unless a body
\* behind the first named another), so no POST erases what it does not mention.
LastWriterWins ==
    entry # NoEntry =>
        \A f \in ServiceFields :
            LET fields == [i \in DOMAIN posts |-> posts[i].fields]
                later == DOMAIN posts \ {1}
            IN  entry.fields[f] =
                    IF f # "peer_id" THEN Latest(fields, DOMAIN posts, f)
                    ELSE OrDefault(Latest(fields, later, f), Local)

\* The providers of a service are those ever sent, merged by id; this needs that
\* the first body did not name an id twice.
ProvidersMerged ==
    entry # NoEntry /\ DistinctIds(FirstList) => MergedFrom(ProvidersOf(entry), sent)

\* An operator who got no answer sends the same POST again.  That changes
\* nothing, unless the body created the entry and names a peer_id, which only
\* the second POST believes, or names an id twice.
RetryHarmless ==
    posts # <<>> =>
        LET body == posts[Len(posts)]
        IN  /\ DistinctIds(ProvidersOf(body)) /\ DistinctIds(FirstList)
            /\ Len(posts) = 1 => body.fields.peer_id = None
            => Update(entry, body) = entry

\* As long as every provider of a body that has a schema has a base_url too,
\* looking a provider up for a forwarded request does not panic, whatever was
\* merged with what.
LookupNeverPanics ==
    /\ entry # NoEntry
    /\ \A i \in DOMAIN sent : sent[i].schema # None => sent[i].base_url # None
    => get_http_provider(entry) # Panic /\ get_ws_provider(entry) # Panic

\* What a body says of the arguments of the market contract: of the service, and
\* of the provider that is listed, the first of the entry.
Said(body, field) == {body.fields[field]}
SaidOfProvider(body, field) ==
    {ProvidersOf(body)[i][field] : i \in Places(ProvidersOf(body), entry.providers[1].id)}
Given(body) ==
    [name |-> Said(body, "name"),
     desc |-> SaidOfProvider(body, "desc"),
     logo |-> Said(body, "logo"),
     createTime |-> SaidOfProvider(body, "created_at"),
     providerName |-> SaidOfProvider(body, "name"),
     schema |-> SaidOfProvider(body, "schema"),
     pricePlan |-> Said(body, "price_plan"),
     declaimer |-> SaidOfProvider(body, "extra_detail")]

\* A service that could be listed in the market contract stays so until it is
\* deleted, and an argument of its listing changes only to what the body of the
\* POST gives for it: none falls back to a default or is taken from a provider
\* that was not listed before.
ListingKept ==
    [][entry # NoEntry /\ entry' # NoEntry /\ listing # Panic =>
          /\ listing' # Panic
          /\ \A a \in Arguments :
                listing'[a] # listing[a] => listing'[a] \in Given(posts'[Len(posts')])[a]]_vars
=============================================================================
