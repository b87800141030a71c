------------------------------ MODULE MC_Masking ------------------------------
(***************************************************************************)
(* Texts for MaskSensitiveInfo. URLs are built from every scheme, host,    *)
(* path and query below; plain domains, IPv4 addresses, an e-mail address  *)
(* and texts of two words are added. Each label carries its role: "sub"    *)
(* (a host label left of the last two), "host" (the name before the TLD), *)
(* "tld", "path", "qkey", "qval", "cred" (user information), "local" (an  *)
(* e-mail local part) or "word".                                           *)
(***************************************************************************)
EXTENDS Masking

L(w, n, c, role) == [k |-> "lab", w |-> w, n |-> n, c |-> c, role |-> role]

Api == L("api", 3, "alpha", "sub")
OpenAI == L("openai", 6, "alpha", "host")
Com == L("com", 3, "alpha", "tld")
Sub == L("sub", 3, "alpha", "sub")
Domain == L("domain", 6, "alpha", "sub")
Co == L("co", 2, "alpha", "tld")
Uk == L("uk", 2, "alpha", "tld")
Bit == L("bit", 3, "alpha", "host")
Ly == L("ly", 2, "alpha", "tld")
Localhost == L("localhost", 9, "alpha", "host")
Oct10 == L("10", 2, "digit", "sub")
Oct0 == L("0", 1, "digit", "sub")
Oct1 == L("1", 1, "digit", "host")
User == L("user", 4, "alpha", "cred")
Seg1 == L("v1", 2, "alnum", "path")
Seg2 == L("users", 5, "alpha", "path")
Key1 == L("key", 3, "alpha", "qkey")
Key2 == L("model", 5, "alpha", "qkey")
Val1 == L("sk123", 5, "alnum", "qval")
Val2 == L("secret", 6, "alpha", "qval")
Mail == L("alice", 5, "alpha", "local")
Example == L("example", 7, "alpha", "host")
Error == L("error", 5, "alpha", "word")
A1 == L("a", 1, "alpha", "host")

MCLabels == {Api, OpenAI, Com, Sub, Domain, Co, Uk, Bit, Ly, Localhost,
             Oct10, Oct0, Oct1, User, Seg1, Seg2, Key1, Key2, Val1, Val2,
             Mail, Example, Error, A1}

Dotted(s) == JoinWith([x \in DOMAIN s |-> <<s[x]>>], Dot)

Hosts == {Dotted(<<Api, OpenAI, Com>>), Dotted(<<Sub, Domain, Co, Uk>>),
          Dotted(<<Localhost>>), Dotted(<<Oct10, Oct0, Oct0, Oct1>>),
          <<User, At>> \o Dotted(<<Api, OpenAI, Com>>)}

Paths == {<<>>, <<Slash>>, <<Slash, Seg1>>, <<Slash, Seg1, Slash, Seg2, Slash>>,
          <<Slash, Slash, Seg2>>}

Queries == {<<>>, <<Qm>>, <<Qm, Key1, Eq, Val1>>,
            <<Qm, Key1, Eq, Val1, Amp, Key2, Eq, Val2>>,
            <<Qm, Key1, Eq, Val1, Amp, Key1, Eq, Val2>>,
            <<Qm, Key1>>, <<Qm, Amp>>, <<Qm, Key1, Eq, Val2, Pct>>}

URLs == {<<Scheme(s)>> \o h \o p \o q :
            s \in {"http", "https"}, h \in Hosts, p \in Paths, q \in Queries}

PlainDomains == {Dotted(<<Api, OpenAI, Com>>), Dotted(<<OpenAI, Com>>),
                 Dotted(<<Sub, Domain, Co, Uk>>), Dotted(<<Oct10, Oct0, Oct0, Oct1>>)}

Words == {<<Error, Sp>> \o d : d \in PlainDomains}
         \cup {<<Scheme("https")>> \o Dotted(<<Api, OpenAI, Com>>) \o <<Slash, Seg1, Sp>>
                  \o Dotted(<<OpenAI, Com>>)}

\* The inputs url.Parse accepts, with plain domains, addresses and words.
WellFormedInputs == URLs \cup PlainDomains \cup Words

\* A bad escape in the path: url.Parse fails (line 176).
MalformedInputs ==
    {<<Scheme("https")>> \o Dotted(<<Api, OpenAI, Com>>) \o <<Slash, Seg1, Pct>>
        \o q : q \in Queries \ {<<>>}}
    \cup {<<Scheme("https"), A1, Sp>> \o Dotted(<<Api, OpenAI, Com>>) \o <<Slash, Seg1>>}

\* Names of a registrable label and a short TLD, bare and in a URL.
ShortNameInputs ==
    {Dotted(<<Bit, Ly>>), Dotted(<<OpenAI, Com>>)}
    \cup {<<Scheme("https")>> \o h \o p :
             h \in {Dotted(<<Bit, Ly>>), Dotted(<<Api, OpenAI, Com>>)}, p \in Paths}

EmailInputs == {<<Mail, At>> \o Dotted(<<Example, Com>>),
                <<Error, Sp, Mail, At>> \o Dotted(<<Example, Com>>)}
=============================================================================
