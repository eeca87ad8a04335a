------------------------------ MODULE Records -------------------------------
(***************************************************************************)
(* What homestar-runtime keeps and shares: receipts, workflow information, *)
(* the messages and DHT records that carry them, the notifications sent to *)
(* websocket clients, and the graph built of a workflow.                   *)
(***************************************************************************)
EXTENDS Invocation

CONSTANT Version   \* consts::INVOCATION_VERSION

-----------------------------------------------------------------------------
(* receipt.rs *)

Receipt(cid, instruction, r) ==
    [cid |-> cid, ran |-> r.ran, instruction |-> instruction, out |-> r.out,
     meta |-> r.meta, issuer |-> r.issuer, prf |-> r.prf, version |-> Version]

\* Mutant: the identifier is that of the instruction.
TryWithInstruction(instruction, r) == Receipt(instruction, instruction, r)

\* Receipt::try_with: the identifier is that of the invocation receipt.
try_with(instruction, r) == Receipt(to_cid(InvocationReceiptToIpld(r)), instruction, r)

InvocationReceiptOf(r) ==
    [ran |-> r.ran, out |-> r.out, meta |-> r.meta, issuer |-> r.issuer, prf |-> r.prf]

ReceiptToIpld(r) ==
    LET f == ReceiptFields(r) IN
    Fields([k \in DOMAIN f \union {"cid", "instruction", "version"} |->
              CASE k = "cid"         -> Link(r.cid)
                [] k = "instruction" -> Link(r.instruction)
                [] k = "version"     -> String(Lit(r.version))
                [] OTHER             -> f[k]])

ReceiptFromIpld(i) ==
    Then(AsMap(i), LAMBDA m :
    Then(Then(Field(m, "cid"), PointerFromIpld), LAMBDA cid :
    Then(Then(Field(m, "instruction"), PointerFromIpld), LAMBDA instruction :
    Then(Then(Field(m, "version"), LAMBDA j : from_ipld("string", j)), LAMBDA version :
    Then(InvocationReceiptFromIpld(i), LAMBDA r :
         Good([Receipt(cid, instruction, r) EXCEPT !.version = version[2]]))))))

\* The columns of the receipts table; pointers are stored as texts, out and
\* meta as bytes, a proof as the bytes of its list.
ReceiptRow(r) ==
    [cid |-> <<"cid", r.cid>>, ran |-> <<"cid", r.ran>>, instruction |-> <<"cid", r.instruction>>,
     out |-> ResultToIpld(r.out), meta |-> r.meta,
     issuer |-> IF r.issuer = None THEN None ELSE Some(<<"did", r.issuer[1]>>),
     prf |-> UcanPrfToIpld(r.prf), version |-> r.version]

ReceiptFromRow(row) ==
    Then(ParseCid(row.cid), LAMBDA cid :
    Then(ParseCid(row.ran), LAMBDA ran :
    Then(ParseCid(row.instruction), LAMBDA instruction :
    Then(ResultFromIpld(row.out), LAMBDA out :
    Then(UcanPrfFromIpld(row.prf), LAMBDA prf :
         Good([cid |-> cid, ran |-> ran, instruction |-> instruction, out |-> out,
               meta |-> row.meta, prf |-> prf, version |-> row.version,
               issuer |-> IF row.issuer = None THEN None ELSE Some(row.issuer[1][2])]))))))

-----------------------------------------------------------------------------
(* workflow.rs: resources are <<"Url", text>> or <<"Cid", cid>> *)

RscToIpld(r)   == IF r[1] = "Url" THEN String(r[2]) ELSE Link(r[2])
RscFromIpld(i) ==
    CASE Is("string", i) -> Then(ParseUrl(i[2]), LAMBDA u : Good(<<"Url", u>>))
      [] Is("link", i)   -> Good(<<"Cid", i[2]>>)
      [] OTHER           -> Bad

IndexedResourcesToIpld(f) ==
    Map([k \in {<<"cid", c>> : c \in DOMAIN f} |->
           List([n \in DOMAIN f[k[2]] |-> RscToIpld(f[k[2]][n])])])

IndexedResourcesFromIpld(i) ==
    Then(AsMap(i), LAMBDA m :
    LET Rscs(k) == Then(ParseCid(k), LAMBDA c :
                   Then(from_ipld("list", m[2][k]), LAMBDA s : Each(s, RscFromIpld))) IN
    IF \E k \in DOMAIN m[2] : ~ Rscs(k).ok THEN Bad
    ELSE Good([c \in {k[2] : k \in DOMAIN m[2]} |-> Rscs(<<"cid", c>>).val]))

-----------------------------------------------------------------------------
(* workflow/info.rs *)

\* Stored::new_with_resources and Info::default.
DefaultInfo(cid, name, num_tasks, resources) ==
    [cid |-> cid, name |-> name, num_tasks |-> num_tasks, progress |-> <<>>,
     progress_count |-> 0, resources |-> resources]

\* The count is that of the receipts plus one.
increment_progress(info, cid) ==
    [info EXCEPT !.progress = Append(@, cid), !.progress_count = Len(info.progress) + 2]

InfoToIpld(f) ==
    Fields([cid |-> Link(f.cid), name |-> OrNull(f.name, LAMBDA s : String(Lit(s))),
            num_tasks |-> Integer(f.num_tasks), progress |-> List([n \in DOMAIN f.progress |-> Link(f.progress[n])]),
            progress_count |-> Integer(f.progress_count), resources |-> IndexedResourcesToIpld(f.resources)])

InfoFromIpld(i) ==
    Then(AsMap(i), LAMBDA m :
    Then(Then(Field(m, "cid"), PointerFromIpld), LAMBDA cid :
    Then(Then(Field(m, "num_tasks"), U64FromIpld), LAMBDA num_tasks :
    Then(Then(Field(m, "progress"), LAMBDA j : IF Is("list", j) THEN UcanPrfFromIpld(j) ELSE Bad), LAMBDA progress :
    Then(Then(Field(m, "progress_count"), U64FromIpld), LAMBDA progress_count :
    Then(Then(Field(m, "resources"), IndexedResourcesFromIpld), LAMBDA resources :
         Good([cid |-> cid, num_tasks |-> num_tasks, progress |-> progress,
               progress_count |-> progress_count, resources |-> resources,
               name |-> Optional(m, "name", LAMBDA j :
                           Then(from_ipld("string", j), LAMBDA t : Good(t[2])))])))))))

-----------------------------------------------------------------------------
(* The capsules of DHT records, and decode_capsule of swarm_event/record.rs *)

invocation_capsule(r) ==
    LET f == ReceiptFields(r) IN
    Map([k \in {Lit("ipvm/receipt")} |->
           Fields([n \in DOMAIN f \union {"version"} |->
                     IF n = "version" THEN String(Lit(Version)) ELSE f[n]])])

capsule(info) == Map([k \in {Lit("ipvm/workflow")} |-> InfoToIpld(info)])

Without(m, s) == Map([k \in DOMAIN m[2] \ {Lit(s)} |-> m[2][k]])

\* Mutant: a receipt of no stated version is accepted.
DecodeAnyVersion(key_cid, i) ==
    IF Has(i, "ipvm/receipt")
    THEN Then(InvocationReceiptFromIpld(Get(i, "ipvm/receipt")), LAMBDA r : Good(try_with(key_cid, r)))
    ELSE InfoFromIpld(Get(i, "ipvm/workflow"))

\* pop_first of a capsule, which has one entry.
decode_capsule(key_cid, i) ==
    IF ~ Is("map", i) THEN Bad
    ELSE IF DOMAIN i[2] = {} THEN Bad
    ELSE LET code == CHOOSE k \in DOMAIN i[2] : TRUE  rest == i[2][code] IN
         CASE code = Lit("ipvm/receipt") /\ Is("map", rest) ->
                IF ~ Has(rest, "version") THEN Bad
                ELSE IF Get(rest, "version") # String(Lit(Version)) THEN Bad
                ELSE Then(InvocationReceiptFromIpld(Without(rest, "version")), LAMBDA r :
                          Good(try_with(key_cid, r)))
           [] code = Lit("ipvm/workflow") /\ Is("map", rest) -> InfoFromIpld(rest)
           [] OTHER -> Bad

-----------------------------------------------------------------------------
(* network/pubsub/message.rs *)

MessageToIpld(nonce, payload) ==
    Fields([header |-> Fields([nonce |-> NonceToIpld(nonce)]), payload |-> payload])

HeaderFromIpld(i) == Then(AsMap(i), LAMBDA m : Then(Field(m, "nonce"), NonceFromIpld))

\* Message<Receipt>: the payload is read once the header has been.
MessageFromIpld(i) ==
    Then(AsMap(i), LAMBDA m :
    Then(Then(Field(m, "header"), HeaderFromIpld), LAMBDA nonce :
    Then(Field(m, "payload"), ReceiptFromIpld)))

-----------------------------------------------------------------------------
(* event_handler/notification.rs and notification/swarm.rs *)

\* SwarmNotification: the variants, as Display writes them.
SwarmName ==
    {"connectionEstablished", "connectionClosed", "listeningOn", "outgoingConnectionError",
     "incomingConnectionError", "publishedReceiptPubsub", "receivedReceiptPubsub",
     "gotReceiptDht", "putReceiptDht", "gotWorkflowInfoDht", "putWorkflowInfoDht",
     "receiptQuorumSuccess", "receiptQuorumFailure", "workflowInfoQuorumSuccess",
     "workflowInfoQuorumFailure", "sentWorkflowInfo", "receivedWorkflowInfo"}

\* FromStr, with the spelling it has for the name of PutReceiptDht.
from_str(s) ==
    CASE s = "putReciptDht"                  -> Good("putReceiptDht")
      [] s \in SwarmName \ {"putReceiptDht"} -> Good(s)
      [] OTHER                               -> Bad

\* EventNotificationTyp: the kind and, of a network event, its name.
EventNotificationTyp(t) == IF t[1] = "net" THEN from_str(t[2]) ELSE Bad

EventNotificationToIpld(e) ==
    Fields([type |-> String(<<"net", e.typ>>), data |-> e.data, timestamp |-> Integer(e.timestamp)])

EventNotificationFromIpld(i) ==
    Then(AsMap(i), LAMBDA m :
    Then(Then(Field(m, "type"), LAMBDA j : from_ipld("string", j)), LAMBDA t :
    Then(EventNotificationTyp(t), LAMBDA typ :
    Then(Field(m, "data"), LAMBDA data :
    Then(Then(Field(m, "timestamp"), LAMBDA j : from_ipld("int", j)), LAMBDA ts :
         Good([typ |-> typ, data |-> data, timestamp |-> ts]))))))
=============================================================================
