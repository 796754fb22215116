-------------------------- MODULE MCRuntimeResolve --------------------------
(***************************************************************************)
(* Small instances of RuntimeResolve: host "a" is a cluster's proxy, "b"   *)
(* another's.                                                              *)
(***************************************************************************)
EXTENDS RuntimeResolve, TLC

MCHost == {"a", "b"}
MCProfileName == {"work", "play"}
MCPEM == {"modern", "legacy", "renewed"}
MCHeaderName == {"Authorization", "X-Trace"}
MCHeaderValue == {"given", "added", "later"}
MCBundle == {"pem"}

At(h, p) == [scheme |-> "", host |-> h, port |-> p]
Written(scheme, h, p) == [scheme |-> scheme, host |-> h, port |-> p]

NoFields == [public |-> NoAddr, ssh |-> NoAddr, web |-> NoAddr]
WorkFields == [public |-> NoAddr, ssh |-> At("b", 3023), web |-> At("b", 3080)]
PlayFields == [public |-> Written("https", "a", 0), ssh |-> NoAddr, web |-> NoAddr]

Pem(name) == [cert |-> name, key |-> name]

Bare ==
    [current |-> Absent, files |-> [n \in MCProfileName |-> Absent],
     index |-> Absent, modern |-> [cert |-> Absent, key |-> Absent],
     legacy |-> [cert |-> Absent, key |-> Absent], config |-> Absent]

Rules ==
    <<[hosts |-> MCHost, headers |-> "X-Trace" :> "added"],
      [hosts |-> {"b"}, headers |-> "Authorization" :> "added" @@ "X-Trace" :> "later"]>>

LoggedIn ==
    [Bare EXCEPT !.current = "work", !.files["work"] = WorkFields,
                 !.files["play"] = PlayFields,
                 !.modern = Pem("modern"), !.legacy = Pem("legacy"),
                 !.config = Rules]

\* Profiles that are there, are not, or cannot be used.
ProfileHomes ==
    {Bare, [Bare EXCEPT !.config = Rules],
     LoggedIn,
     [LoggedIn EXCEPT !.current = "play"],
     [LoggedIn EXCEPT !.current = Broken],
     [LoggedIn EXCEPT !.files["work"] = Absent],
     [LoggedIn EXCEPT !.files["work"] = Broken],
     [LoggedIn EXCEPT !.files["work"] = NoFields]}

\* The older index file.
Entries == <<[name |-> "work", fields |-> WorkFields],
             [name |-> "play", fields |-> PlayFields]>>
Indexed(current, entries) ==
    [LoggedIn EXCEPT !.current = NoName,
                     !.index = [current |-> current, entries |-> entries]]
IndexHomes ==
    {Indexed("play", Entries), Indexed(NoName, <<Entries[1]>>),
     Indexed(NoName, Entries), Indexed("play", <<Entries[1]>>),
     [LoggedIn EXCEPT !.current = NoName, !.index = Broken]}

\* Key files one of which is missing or empty; a config.yaml that is broken.
KeyHomes ==
    {[LoggedIn EXCEPT !.modern.key = Absent],
     [LoggedIn EXCEPT !.modern.cert = Empty],
     [LoggedIn EXCEPT !.modern.cert = Absent, !.legacy.key = Absent],
     [LoggedIn EXCEPT !.config = Broken]}

MCHomes == ProfileHomes \cup IndexHomes \cup KeyHomes

\* Proxy variables: none, one, both, without scheme, unusable, and one host
\* exempted.
Unset == <<NoURL, NoURL>>
Proxied(scheme, host) == [scheme |-> scheme, host |-> host]
Vars(https, http) == [https |-> https, http |-> http, all |-> Unset, exempt |-> {"a"}]

ProxyEnvs ==
    {Vars(<<NoURL, Proxied("http", "p")>>, Unset),
     Vars(Unset, <<Proxied("", "q"), NoURL>>),
     Vars(<<Proxied("http", "p"), Unparsable>>, <<Proxied("https", "q"), NoURL>>),
     Vars(<<Unparsable, NoURL>>, <<Proxied("http", "q"), Proxied("http", "p")>>),
     [Vars(<<Proxied("socks4", "p"), NoURL>>, Unset)
         EXCEPT !.all = <<NoURL, Proxied("socks5", "q")>>]}

\* Headers given once; twice, the second time in a file; in a file that is not
\* there, or has a line that is no header.
One(name, value) ==
    [file |-> FALSE, lines |-> <<[name |-> name, value |-> value]>>]
FromFile(lines) == [file |-> TRUE, lines |-> lines]
Twice ==
    <<One("X-Trace", "added"),
      FromFile(<<Blank, [name |-> "Authorization", value |-> "given"],
                 [name |-> "X-Trace", value |-> "later"],
                 [name |-> "X-Trace", value |-> "given"]>>)>>

MCCommandLines ==
    [publicAddr: {NoAddr, At("a", 0), At("a", 3080)},
     useProfileCredentials: BOOLEAN,
     headerArgs: {<<>>, Twice},
     env: {Vars(Unset, Unset)}]
    \cup
    [publicAddr: {At("a", 3080), Written("http", "a", 3080)},
     useProfileCredentials: {FALSE}, headerArgs: {<<>>}, env: ProxyEnvs]
    \cup
    [publicAddr: {Written("https", "a", 443), Written("http", "a", 0)},
     useProfileCredentials: {FALSE}, headerArgs: {<<>>}, env: {Vars(Unset, Unset)}]
    \cup
    [publicAddr: {NoAddr, At("a", 0)}, useProfileCredentials: {FALSE},
     headerArgs: {<<One("X-Trace", "given")>>,
                  <<One("X-Trace", "given"), FromFile(Absent)>>,
                  <<FromFile(<<[name |-> NoName, value |-> "given"]>>)>>,
                  <<FromFile(<<NoColon>>), One("X-Trace", "given")>>},
     env: {Vars(Unset, Unset)}]

MCPings ==
    {[webAddr |-> NoAddr, tlsRouting |-> TRUE],
     [webAddr |-> At("a", 0), tlsRouting |-> TRUE],
     [webAddr |-> At("b", 0), tlsRouting |-> FALSE],
     [webAddr |-> At("b", 3080), tlsRouting |-> TRUE]}

OnlyLoggedIn == {LoggedIn}
=============================================================================
