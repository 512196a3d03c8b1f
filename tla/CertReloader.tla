----------------------------- MODULE CertReloader -----------------------------
(***************************************************************************)
(* server.CertificateReloader (gateway/internal/server/tls.go): a TLS key  *)
(* pair is loaded at start-up, and its two files are read again at every   *)
(* tick while they are being replaced.  GatewayProcess composes it with    *)
(* the process that owns it.                                               *)
(*                                                                         *)
(* A certificate is its serial, and a key the serial of the certificate it *)
(* was made for.  A renewal is the next serial, with a new key or with the *)
(* one before.  A digest stands for the file it is taken of.               *)
(***************************************************************************)
EXTENDS Naturals, Sequences

CONSTANT MaxSerial      \* bound: certificates

VARIABLES
    issued,     \* the certificates that were issued: the key of each
    certFile,   \* the certificate in tls.certFile, or Unreadable
    keyFile,    \* the key in tls.keyFile, or Unreadable
    step,       \* where reload is: "idle", "key" (the certificate is read), "load"
    certPEM,    \* reload: certPEM
    keyPEM,     \* reload: keyPEM
    pair        \* cert and digest: the pair being served

diskVars   == <<issued, certFile, keyFile>>
reloadVars == <<step, certPEM, keyPEM, pair>>

Unreadable == 0     \* missing, half written or no PEM
Other      == MaxSerial + 1     \* the key of some other certificate
NoPair     == [cert |-> 0, key |-> 0]

\* The key that a certificate goes with.
KeyOf(c) == issued[c]

Newest == [cert |-> Len(issued), key |-> issued[Len(issued)]]

InitCerts ==
    /\ issued = <<1>>
    /\ certFile \in {1, Unreadable} /\ keyFile \in {1, Other, Unreadable}
    /\ step = "idle" /\ certPEM = Unreadable /\ keyPEM = Unreadable
    /\ pair = NoPair
-----------------------------------------------------------------------------
(* The files.                                                              *)

Issue(keys) ==
    /\ Len(issued) < MaxSerial
    /\ \E k \in keys : issued' = Append(issued, k)

NewKey == Len(issued) + 1

\* A renewal; the kubelet swaps both files at once.
Renew ==
    /\ Issue({NewKey, Newest.key})
    /\ certFile' = Newest'.cert /\ keyFile' = Newest'.key
    /\ UNCHANGED reloadVars

\* A renewal by a tool that replaces one file after the other.
RenewCert ==
    /\ Issue({NewKey, Newest.key})
    /\ certFile' = Newest'.cert
    /\ UNCHANGED <<keyFile, reloadVars>>

RenewKey ==
    /\ Issue({NewKey})
    /\ keyFile' = Newest'.key
    /\ UNCHANGED <<certFile, reloadVars>>

\* The file that is behind follows, or one that was damaged is put back.
Complete ==
    /\ \/ certFile' = Newest.cert /\ certFile # Newest.cert /\ UNCHANGED keyFile
       \/ keyFile' = Newest.key /\ keyFile # Newest.key /\ UNCHANGED certFile
    /\ UNCHANGED <<issued, reloadVars>>

\* A file is removed or half written.
Damage ==
    /\ \/ certFile' = Unreadable /\ certFile # Unreadable /\ UNCHANGED keyFile
       \/ keyFile' = Unreadable /\ keyFile # Unreadable /\ UNCHANGED certFile
    /\ UNCHANGED <<issued, reloadVars>>

Files == Renew \/ RenewCert \/ RenewKey \/ Complete \/ Damage
-----------------------------------------------------------------------------
(* reload.                                                                 *)

\* The end of reload; nothing is kept of what was read.
Return ==
    /\ step' = "idle" /\ certPEM' = Unreadable /\ keyPEM' = Unreadable

\* The certificate file is read.  What cannot be read ends in an error, either here
\* or, when the file is there but holds no PEM, in X509KeyPair.
ReadCert ==
    /\ step = "idle"
    /\ IF certFile = Unreadable
       THEN Return
       ELSE step' = "key" /\ certPEM' = certFile /\ UNCHANGED keyPEM
    /\ UNCHANGED <<diskVars, pair>>

\* The key file is read, which may have been replaced meanwhile.
ReadKey ==
    /\ step = "key"
    /\ IF keyFile = Unreadable
       THEN Return
       ELSE step' = "load" /\ keyPEM' = keyFile /\ UNCHANGED certPEM
    /\ UNCHANGED <<diskVars, pair>>

\* Mutant of Unchanged: only the keys are compared.
UnchangedKey == pair # NoPair /\ pair.key = keyPEM

\* The files are those of the pair in use.
Unchanged == pair = [cert |-> certPEM, key |-> keyPEM]

\* Mutant of X509KeyPair: the key is not checked against the certificate.
X509KeyPairUnchecked(c, k) == Unreadable \notin {c, k}

\* tls.X509KeyPair fails unless the key belongs to the certificate.
X509KeyPair(c, k) == k = KeyOf(c)

\* A new pair that loads replaces the one in use; another one is refused.
Load ==
    /\ step = "load"
    /\ pair' = IF ~Unchanged /\ X509KeyPair(certPEM, keyPEM)
               THEN [cert |-> certPEM, key |-> keyPEM]
               ELSE pair
    /\ Return
    /\ UNCHANGED diskVars

Reload == ReadCert \/ ReadKey \/ Load

\* reload returned an error, at the end of a step that left no pair.
NothingLoaded == step = "idle" /\ pair = NoPair
=============================================================================
