----------------------------- MODULE OwnedClient -----------------------------
(***************************************************************************)
(* The life of the client that <Inbox /> or <ChimelyProvider> constructs   *)
(* (Inbox.tsx, context.tsx): connect on mount, close on unmount, and a new *)
(* `subscriberHash' prop that replaces the credential with no remount.     *)
(***************************************************************************)
CONSTANTS
    Hashes,
    NoHash,         \* the prop is undefined
    NoStream

VARIABLES
    host,           \* who owns the client: standalone, provider
    mounted,
    hash,           \* the prop
    config,         \* the hash the client signs with
    status,
    stream,         \* the hash in the URL of the EventSource, or NoStream
    tried           \* history: the hashes of the streams of this client

ownVars == <<host, mounted, hash, config, status, stream, tried>>

OpenStream(h) ==
    /\ status' = "connecting"
    /\ stream' = h /\ tried' = tried \cup {h}

\* connect: idempotent.
Connect ==
    IF status \in {"idle", "closed"} THEN OpenStream(config)
    ELSE UNCHANGED <<status, stream, tried>>

\* The client is constructed with the props of the first render; the effects
\* connect it and find the credential unchanged.
MountOwner(h) ==
    /\ ~mounted
    /\ mounted' = TRUE
    /\ hash' = h /\ config' = h
    /\ status' = "connecting" /\ stream' = h /\ tried' = {h}
    /\ UNCHANGED host

\* StrictMode and a hidden tree run the effects of the same instance again.
RunEffectsAgain ==
    /\ ~mounted /\ status = "closed"
    /\ mounted' = TRUE
    /\ Connect
    /\ UNCHANGED <<host, hash, config>>

UnmountOwner ==
    /\ mounted
    /\ mounted' = FALSE
    /\ status' = "closed" /\ stream' = NoStream
    /\ UNCHANGED <<host, hash, config, tried>>

\* Mutant: the effect replaces the credential and leaves a closed client alone.
ReplaceOnly(h) ==
    /\ config' = h
    /\ IF h = config \/ status \in {"idle", "closed"}
       THEN UNCHANGED <<status, stream, tried>> ELSE OpenStream(h)

\* setCredentials opens nothing on a client that is closed, so the effect
\* connects one that has given up.
Replace(h) ==
    /\ config' = h
    /\ IF h = config /\ status # "closed"
       THEN UNCHANGED <<status, stream, tried>> ELSE OpenStream(h)

\* A provider never rebuilds its client; an undefined hash replaces nothing.
NewHash(h) ==
    /\ mounted /\ h # hash
    /\ hash' = h
    /\ IF host = "provider" \/ h = NoHash
       THEN UNCHANGED <<config, status, stream, tried>> ELSE Replace(h)
    /\ UNCHANGED <<host, mounted>>

StreamOpens ==
    /\ status \in {"connecting", "reconnecting"} /\ stream # NoStream
    /\ status' = "connected"
    /\ UNCHANGED <<host, mounted, hash, config, stream, tried>>

\* Another attempt will follow, or this was the last of maxAttempts.
StreamDrops ==
    /\ stream # NoStream
    /\ stream' = NoStream /\ status' \in {"reconnecting", "closed"}
    /\ UNCHANGED <<host, mounted, hash, config, tried>>

StreamReconnects ==
    /\ status = "reconnecting" /\ stream = NoStream
    /\ stream' = config /\ tried' = tried \cup {config}
    /\ UNCHANGED <<host, mounted, hash, config, status>>

OwnInit ==
    /\ host \in {"standalone", "provider"}
    /\ mounted = FALSE /\ hash = NoHash /\ config = NoHash
    /\ status = "idle" /\ stream = NoStream /\ tried = {}

OwnNext ==
    \/ \E h \in Hashes \cup {NoHash} : MountOwner(h) \/ NewHash(h)
    \/ RunEffectsAgain \/ UnmountOwner
    \/ StreamOpens \/ StreamDrops \/ StreamReconnects

\* A standalone widget never goes on under an old credential: once the prop
\* has changed, a stream has been tried with the new hash, even by a client
\* that had given up, and no stream is open with another one; and when the
\* widget is gone so is the stream (Inbox.tsx:89-107, client.ts setCredentials).
CredentialInForce ==
    /\ mounted /\ host = "standalone" /\ hash # NoHash =>
           hash \in tried /\ stream \in {hash, NoStream}
    /\ ~mounted => stream = NoStream
=============================================================================
