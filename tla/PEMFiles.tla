------------------------------ MODULE PEMFiles ------------------------------
(***************************************************************************)
(* Files of PEM blocks, the client's certificate and the host CA bundle,   *)
(* and the readers each of which makes its own of them: the engine, the    *)
(* runner, crypto/x509 and crypto/tls.  internal/probe/certinfo.go,        *)
(* engine.go.                                                              *)
(***************************************************************************)
EXTENDS Naturals, Sequences

CONSTANTS
    Cert,      \* certificates
    Malformed, \* a block that is no certificate x509 can parse
    NoCert

ASSUME PEMAssumption == {Malformed, NoCert} \cap Cert = {} /\ Malformed # NoCert

\* A block of type CERTIFICATE or of another, a key for example.
Block == [certificate: BOOLEAN, holds: Cert \cup {Malformed}]
File == Seq(Block)

\* The places of the certificate blocks.
CertBlocks(file) == {n \in DOMAIN file : file[n].certificate}

\* Every certificate of the file that can be parsed.
ParseCertBundleFromPEM(file) == {file[n].holds : n \in CertBlocks(file)} \ {Malformed}

\* Only the first block is looked at.
ParseCertFromPEM(file) ==
    IF file # <<>> /\ file[1].certificate /\ file[1].holds # Malformed
    THEN file[1].holds ELSE NoCert

\* What AppendCertsFromPEM adds to a pool; it fails if that is nothing.
AppendCertsFromPEM(file) == ParseCertBundleFromPEM(file)

\* tls.X509KeyPair: the first certificate block must parse and go with the key.
IsKeyPair(file, keyOf) ==
    \E n \in CertBlocks(file) :
        /\ \A m \in CertBlocks(file) : n <= m
        /\ file[n].holds # Malformed /\ file[n].holds = keyOf
=============================================================================
