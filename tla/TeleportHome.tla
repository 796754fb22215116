---------------------------- MODULE TeleportHome ----------------------------
(***************************************************************************)
(* The Teleport home directory as tlscheck reads it: which profile is the  *)
(* active one, which client certificate it has, which headers config.yaml  *)
(* adds for a proxy.  internal/discovery/profile.go, tshconfig.go.         *)
(*                                                                         *)
(* Addresses are kept as they are written: with or without a scheme and a  *)
(* port.  Letter case, paths and user information are left out; they make  *)
(* further spellings of the same place.                                    *)
(***************************************************************************)
EXTENDS Integers, Sequences

CONSTANTS
    Host,          \* host names
    NoAddr,        \* an empty address field
    Absent,        \* a file that does not exist
    Broken,        \* a file that cannot be read or decoded
    Empty,         \* a file without contents
    ProfileName,   \* names of profiles
    NoName,        \* an empty or blank name
    PEM,           \* contents a certificate or key file may have
    HeaderName,    \* names of HTTP headers
    HeaderValue    \* their values

\* scheme "" and port 0 stand for none; "https://a:443", "a:443" and "a" are three
\* spellings of one place.
Addr == [scheme: {"", "https", "http"}, host: Host, port: Nat]
MaybeAddr == Addr \cup {NoAddr}

ASSUME NoAddrAssumption == NoAddr \notin Addr
ASSUME NoNameAssumption == NoName \notin ProfileName
ASSUME UnreadAssumption ==
    /\ Absent # Broken
    /\ {Absent, Broken} \cap (ProfileName \cup {NoName}) = {}
    /\ {Absent, Empty} \cap PEM = {} /\ Absent # Empty

Headers == UNION {[S -> HeaderValue] : S \in SUBSET HeaderName}

\* The three address fields of a profile in the order they are looked at for
\* the public address: public, SSH proxy or proxy URL, web proxy.
ProfileFields == [public: MaybeAddr, ssh: MaybeAddr, web: MaybeAddr]

\* The ways a file yields nothing.
Unread == {Absent, Broken}

Entry == [name: ProfileName, fields: ProfileFields]

\* An entry of add_headers, its glob pattern given by the hosts it matches.
HeaderRule == [hosts: SUBSET Host, headers: Headers]

KeyFiles == [cert: PEM \cup {Absent, Empty}, key: PEM \cup {Absent, Empty}]

\* current: the file current-profile; files: <name>.yaml; index: profiles.yaml;
\* modern, legacy: the key files of the active profile's user in the formats of
\* Teleport 17+ and before; config: config.yaml.
Home ==
    [current: ProfileName \cup {NoName} \cup Unread,
     files: [ProfileName -> ProfileFields \cup Unread],
     index: [current: ProfileName \cup {NoName}, entries: Seq(Entry)] \cup Unread,
     modern: KeyFiles, legacy: KeyFiles,
     config: Seq(HeaderRule) \cup Unread]

Profile == [name: ProfileName, public: Addr, web: Addr]

-----------------------------------------------------------------------------
FirstOf(a, b, c) ==
    CASE a # NoAddr -> a
      [] a = NoAddr /\ b # NoAddr -> b
      [] OTHER -> c

\* normalizeHost and parseHostAndPort drop the scheme and the port.
HostOnly(a) == [scheme |-> "", host |-> a.host, port |-> 0]

ProfileFrom(name, f) ==
    IF FirstOf(f.public, f.ssh, f.web) = NoAddr THEN Broken
    ELSE [name |-> name,
          public |-> HostOnly(FirstOf(f.public, f.ssh, f.web)),
          web |-> FirstOf(f.web, f.ssh, f.public)]

LoadProfileFile(home, name) ==
    IF home.files[name] \in Unread THEN home.files[name]
                                   ELSE ProfileFrom(name, home.files[name])

\* profiles.yaml names the profile, or has only one.
IndexedName(index) ==
    IF index.current = NoName /\ Len(index.entries) = 1
    THEN index.entries[1].name ELSE index.current

ByName(index, name) ==
    {n \in DOMAIN index.entries :
        /\ index.entries[n].name = name
        /\ \A m \in 1..(n - 1) : index.entries[m].name # name}

LoadFromProfilesYAML(home) ==
    CASE home.index \in Unread -> home.index
      [] home.index \notin Unread /\ IndexedName(home.index) = NoName -> Absent
      [] home.index \notin Unread /\ IndexedName(home.index) # NoName
            /\ ByName(home.index, IndexedName(home.index)) = {} -> Broken
      [] OTHER ->
            LET n == CHOOSE n \in ByName(home.index, IndexedName(home.index)) : TRUE
            IN  ProfileFrom(home.index.entries[n].name, home.index.entries[n].fields)

\* The active profile, Absent for ErrNoActiveProfile, or Broken for any
\* other error.  A current-profile that names a profile decides: profiles.yaml
\* is only looked at without one.
LoadActiveProfile(home) ==
    CASE home.current = Broken -> Broken
      [] home.current \in {Absent, NoName} -> LoadFromProfilesYAML(home)
      [] OTHER -> LoadProfileFile(home, home.current)

-----------------------------------------------------------------------------
NoPair == [cert |-> Empty, key |-> Empty]

-----------------------------------------------------------------------------
\* The value config.yaml gives a header for a host: that of the last rule that
\* matches the host and has the header.
Sources(rules, host, h) ==
    {n \in DOMAIN rules : host \in rules[n].hosts /\ h \in DOMAIN rules[n].headers}

MatchingHeaders(rules, host) ==
    [h \in {h \in HeaderName : Sources(rules, host, h) # {}} |->
        rules[CHOOSE n \in Sources(rules, host, h) :
                \A m \in Sources(rules, host, h) : m <= n].headers[h]]

\* LoadTSHConfig and MatchingHeaders: a config.yaml that is absent or cannot be
\* read adds nothing.
ConfigHeaders(home, host) ==
    MatchingHeaders(IF home.config \in Unread THEN <<>> ELSE home.config, host)
=============================================================================
