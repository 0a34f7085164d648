---------------------------- MODULE MCApiClient -----------------------------
(* Instances of ApiClient for TLC.                                         *)
EXTENDS ApiClient

Contexts ==
    [index : {"unset", "bad", "first", "second"},
     operationIndex : {"unset", "bad", "other", "second"},
     variables : {"unset", "bad", "listed"},
     operationVariables : {"unset", "bad", "other", "unlisted"}]

Submit(type, ctx) ==
    [op |-> "ApiSubmitTxPost", hash |-> "none", contentType |-> type, ctx |-> ctx]

HasTx(hash, ctx) ==
    [op |-> "ApiHastxTxHashGet", hash |-> hash, contentType |-> "none", ctx |-> ctx]

\* Every parameter without a context, every context with one parameter.
AllCalls ==
    {Submit(t, Background) : t \in {"unset", "application/cbor", "text/plain"}}
      \cup {HasTx(h, x) : h \in {"hex", "text", "empty"}, x \in {Background}}
      \cup {HasTx("hex", x) : x \in Contexts}

FewCalls == {k \in AllCalls : k.ctx = Background}

Configured(servers, own) ==
    [servers : {servers}, operations : {own}, operationServers : {<<>>, <<"plain", "enum">>},
     host : BOOLEAN, scheme : BOOLEAN, debug : BOOLEAN]

AllConfigurations ==
    {NewConfiguration}
      \cup Configured(<<"enum", "plain">>, {})
      \cup Configured(<<"relative", "broken">>, {})
      \cup Configured(<<"relative">>, {"ApiHastxTxHashGet"})

Default == {NewConfiguration}

Plain == {[NewConfiguration EXCEPT !.servers = <<"plain">>]}

==============================================================================
