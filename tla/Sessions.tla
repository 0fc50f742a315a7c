------------------------------ MODULE Sessions ------------------------------
(***************************************************************************)
(* Conversations in memory (internal/modules/completion/session.go): the   *)
(* session of each ID, and the IDs of each API key's sessions.  Every      *)
(* method of the manager holds its lock.                                   *)
(***************************************************************************)
EXTENDS Sequences, SequencesExt

CONSTANTS
    Keys,          \* API keys
    SessionIds,
    None

VARIABLES
    sessions,      \* by ID: the key that created it and its messages, or None
    index          \* apiKeyToSess

SessionsInit ==
    /\ sessions = [id \in SessionIds |-> None]
    /\ index = [key \in Keys |-> <<>>]

Exists(id) == sessions[id] # None

\* Mutant: the ID is put in the index again when the session exists.
GetOrCreateIndexesTwice(key, id) ==
    /\ sessions' = IF Exists(id) THEN sessions
                   ELSE [sessions EXCEPT ![id] = [key |-> key, messages |-> <<>>]]
    /\ index' = [index EXCEPT ![key] = Append(@, id)]

\* Mutant: a session is always made.
GetOrCreateReplaces(key, id) ==
    /\ sessions' = [sessions EXCEPT ![id] = [key |-> key, messages |-> <<>>]]
    /\ index' = [index EXCEPT ![key] = IF id \in ToSet(@) THEN @ ELSE Append(@, id)]

\* An existing session is anybody's who names it.
GetOrCreateSession(key, id) ==
    IF Exists(id) THEN UNCHANGED <<sessions, index>>
    ELSE /\ sessions' = [sessions EXCEPT ![id] = [key |-> key, messages |-> <<>>]]
         /\ index' = [index EXCEPT ![key] = Append(@, id)]

AddMessages(id, messages) ==
    /\ Exists(id)
    /\ sessions' = [sessions EXCEPT ![id].messages = @ \o messages]
    /\ UNCHANGED index

\* The loop that copies the index of a key without id.
Without(list, id) ==
    LET kept[i \in 0 .. Len(list)] ==
          IF i = 0 THEN <<>>
          ELSE IF list[i] = id THEN kept[i - 1] ELSE Append(kept[i - 1], list[i])
    IN  kept[Len(list)]

DeleteSession(id) ==
    /\ Exists(id)
    /\ sessions' = [sessions EXCEPT ![id] = None]
    /\ index' = [index EXCEPT ![sessions[id].key] = Without(@, id)]

\* ListSessions: the sessions of a key that exist, in the order of creation.
ListSessions(key) == SelectSeq(index[key], Exists)

\* The index lists for each key the sessions it created that exist, each once,
\* whoever continues them, and through deletion and a second use of an ID.
IndexMatches ==
    \A key \in Keys :
        /\ ToSet(index[key]) = {id \in SessionIds : Exists(id) /\ sessions[id].key = key}
        /\ IsInjective(index[key])
=============================================================================
