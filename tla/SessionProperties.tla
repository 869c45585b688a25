------------------------- MODULE SessionProperties -------------------------
(***************************************************************************)
(* The property bag of a Session (Session::properties, a                  *)
(* PropertySet<std::string> of include/isml/utility/property_set.hpp whose *)
(* elements are the std::any wrappers of include/isml/utility/property.hpp)*)
(* and the SessionManager operations that visit sessions under            *)
(* m_sessions_guard: find, findSessionByProperty and forEach              *)
(* (src/session/session_manager.cpp,                                      *)
(* include/isml/session/session_manager.hpp), over the sessions and       *)
(* terminations of SessionManager.                                        *)
(*                                                                         *)
(* The application tags a session through the pointer it holds:         *)
(* `properties[k] = v` is PropertySet::operator[] (unordered_map's, which  *)
(* inserts a default Property) and Property::operator=.                   *)
(* findSessionByProperty(k, v) runs its predicate                         *)
(* `session->properties[k] == v` on each entry find_if visits, in the    *)
(* map's unspecified order, so it too goes through operator[]. The bag    *)
(* has no lock of its own; the application's writes are taken as atomic  *)
(* here, so the data race between them and a scan is left out.           *)
(* The action given to forEach is one that tags each session; it may     *)
(* throw, which ends the loop.                                            *)
(***************************************************************************)
EXTENDS SessionManager

CONSTANTS
    Keys,    \* property names
    Values   \* the values the application stores (the contents of the std::any)

Absent == "absent"        \* the key is not in m_properties
Valueless == "valueless"  \* a default-constructed Property: valueless() is true

VARIABLES
    props,    \* each session's m_properties: key -> a value, Valueless or Absent
    tagged    \* the keys the application set on each session and did not remove

propVars == <<props, tagged>>
allVars == <<smVars, propVars>>

TypeOKProps ==
    /\ props \in [Ids -> [Keys -> Values \cup {Absent, Valueless}]]
    /\ tagged \in [Ids -> SUBSET Keys]

PropsInit ==
    /\ Init
    /\ props = [id \in Ids |-> [k \in Keys |-> Absent]]
    /\ tagged = [id \in Ids |-> {}]

\* PropertySet::operator[]: m_properties[key], inserting a Property{}.
Subscript(bag, k) == IF bag[k] = Absent THEN [bag EXCEPT ![k] = Valueless] ELSE bag

\* operator==(Property, T): the std::any holds a T equal to the value.
PropertyEquals(p, v) == p \in Values /\ p = v

\* The application, holding the session: properties[k] = v.
SetProperty(id, k, v) ==
    /\ "app" \in refs[id]
    /\ props' = [props EXCEPT ![id] = [Subscript(@, k) EXCEPT ![k] = v]]
    /\ tagged' = [tagged EXCEPT ![id] = @ \cup {k}]
    /\ UNCHANGED smVars

\* PropertySet::remove: m_properties.erase(key).
Remove(id, k) ==
    /\ "app" \in refs[id]
    /\ props' = [props EXCEPT ![id][k] = Absent]
    /\ tagged' = [tagged EXCEPT ![id] = @ \ {k}]
    /\ UNCHANGED smVars

\* PropertySet::removeAll: m_properties.clear().
RemoveAll(id) ==
    /\ "app" \in refs[id]
    /\ props' = [props EXCEPT ![id] = [k \in Keys |-> Absent]]
    /\ tagged' = [tagged EXCEPT ![id] = {}]
    /\ UNCHANGED smVars

(* A scan under m_sessions_guard dereferences every entry in `visited`:  *)
(* a null entry crashes; otherwise the bags become `touched`.            *)
Scan(visited, touched) ==
    IF \E id \in visited : sessions[id] = "null"
    THEN /\ crashed' = TRUE
         /\ UNCHANGED props
    ELSE /\ props' = touched
         /\ UNCHANGED crashed

(***************************************************************************)
(* findSessionByProperty(k, v) -> find: find_if stops at the first entry  *)
(* whose predicate holds, having visited an unspecified set of the others *)
(* before it; with no match it visits them all and returns nullptr. The   *)
(* match is handed to the application through shared_from_this.           *)
(***************************************************************************)
FindByProperty(k, v) ==
    LET match == {id \in DOMAIN sessions : sessions[id] = "ptr"
                                           /\ PropertyEquals(props[id][k], v)}
    IN \E m \in IF match = {} THEN {0} ELSE match,
          before \in SUBSET (DOMAIN sessions \ match) :
          LET visited == IF m = 0 THEN DOMAIN sessions ELSE before \cup {m}
          IN /\ Scan(visited, [id \in Ids |-> IF id \in visited THEN Subscript(props[id], k)
                                                              ELSE props[id]])
             /\ refs' = IF m = 0 \/ crashed' THEN refs
                        ELSE [refs EXCEPT ![m] = @ \cup {"app"}]
             /\ UNCHANGED <<sessionId, sessions, alive, socketOpen, tstate,
                            readArmed, failed, freedAccess, tagged>>

(* forEach(action) with an action that tags the session: properties[k] = *)
(* v on each entry; an exception from the action ends the loop wherever  *)
(* it is and is swallowed.                                                *)
ForEach(k, v) ==
    /\ \E visited \in IF "throw" \in CallbackOutcomes THEN SUBSET DOMAIN sessions
                                                     ELSE {DOMAIN sessions} :
          /\ Scan(visited, [id \in Ids |-> IF id \in visited THEN [props[id] EXCEPT ![k] = v]
                                                           ELSE props[id]])
          /\ tagged' = IF crashed' THEN tagged
                       ELSE [id \in Ids |-> IF id \in visited THEN tagged[id] \cup {k}
                                                             ELSE tagged[id]]
    /\ UNCHANGED <<sessionId, sessions, refs, alive, socketOpen, tstate,
                   readArmed, failed, freedAccess>>

PropsNext ==
    \/ \E o \in CallbackOutcomes : CreateSession(o) /\ UNCHANGED propVars
    \/ \E id \in Ids, o \in CallbackOutcomes : Terminate(id, o) /\ UNCHANGED propVars
    \/ \E os \in [DOMAIN sessions -> CallbackOutcomes] : TerminateAll(os) /\ UNCHANGED propVars
    \/ \E id \in Ids : AppRelease(id) /\ UNCHANGED propVars
    \/ \E id \in Ids : ReadHandlerError(id) /\ UNCHANGED propVars
    \/ \E id \in Ids, k \in Keys : Remove(id, k) \/ \E v \in Values : SetProperty(id, k, v)
    \/ \E id \in Ids : RemoveAll(id)
    \/ \E k \in Keys, v \in Values : FindByProperty(k, v) \/ ForEach(k, v)

PropsSpec == PropsInit /\ [][PropsNext]_allVars
-----------------------------------------------------------------------------
(* Spec 3: the property bag holds the application's tags on a session.  *)
(* contains(k) is true only for a key the application set on it and did *)
(* not remove; a findSessionByProperty, a lookup, tags nothing. Its      *)
(* predicate's operator[] inserts a valueless Property under k into     *)
(* every session it visits.                                              *)
ContainsOnlyWhatWasSet ==
    \A id \in Ids, k \in Keys : alive[id] /\ props[id][k] # Absent => k \in tagged[id]

=============================================================================
