-------------------------- MODULE MCReconcileDispatch --------------------------
(* ReconcileDispatch for TLC: arguments of registrations and requests.     *)
EXTENDS ReconcileDispatch

Config(res, type, legacy, emitter) ==
    [resource |-> res, resourceType |-> type, legacyNames |-> legacy,
     emitter |-> emitter, provider |-> "given"]

Styled(n, style) == [n EXCEPT !.style = style]

\* Two reconcilers for users, one with legacy names (one of them empty and one
\* written with capitals), one for groups that shares an alias and lists users
\* too, and one call without a name.
MCConfigs ==
    {Config("user", "users", <<>>, TRUE),
     Config("user", "users", <<Styled(Name("unregister", "user"), "upper"), Blank,
                               Name("create", "user")>>, FALSE),
     Config("group", "users", <<Name("create", "user")>>, FALSE),
     Config("", "users", <<>>, TRUE)}

Envelope(op, cap) == [operation |-> op, capability |-> cap]

MCEnvelopes ==
    {Envelope(Styled(Name("ensure", "user"), "padded"), Blank),
     Envelope(Blank, Name("unregister", "user")),
     Envelope(Name("observe", "users"), Name("destroy", "user")),
     Envelope(Name("create", "user"), Blank),
     Envelope(Styled(Name("destroy", "user"), "upper"), Blank),
     Envelope(Blank, Blank)}

\* One reconciler per resource, replaced by one without the alias.
AliasConfigs ==
    {Config("user", "users", <<>>, TRUE),
     Config("user", "users", <<Name("create", "user")>>, TRUE)}

\* A legacy name that begins with a canonical verb.
PrefixConfigs == {Config("user", "users", <<Name("destroy", "account")>>, TRUE)}
PrefixEnvelopes == {Envelope(Name("destroy", "account"), Blank)}

\* A legacy name with capitals, requested with capitals.
CaseConfigs == {Config("user", "users", <<Styled(Name("create", "user"), "upper")>>, TRUE)}
CaseEnvelopes == {Envelope(Styled(Name("create", "user"), "upper"), Blank)}

\* WithEmitter without WithProvider.
ProviderConfigs == {[Config("user", "users", <<>>, TRUE) EXCEPT !.provider = ""]}

=============================================================================
