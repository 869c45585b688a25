----------------------------- MODULE Dispatcher -----------------------------
(***************************************************************************)
(* MessageDispatcher (src/message/message_dispatcher.cpp) with its        *)
(* MessageFilterChain and RuleBasedMessageFilters                         *)
(* (src/message/message_filter_chain.cpp,                                 *)
(* src/message/filters/rule_based_message_filter.cpp).                    *)
(*                                                                         *)
(* dispatch(msg) runs doDispatch on the caller's thread: without a handler *)
(* for the message's type it passes the message to the first delegated   *)
(* dispatcher that has one, or drops it; with a handler it calls the      *)
(* handler if every filter of the chain matches, onMessageRejected if     *)
(* not; whatever throws is swallowed. Handlers are the application's      *)
(* callbacks: they return or throw, and may call back into a dispatcher   *)
(* (dispatch, addHandler, addDelegatedDispatcher, filter().addFilter).    *)
(* The call stack of those nested calls is 'stack'.                        *)
(*                                                                         *)
(* A rule is a std::function on the message; it is modelled by the set of *)
(* message types it holds for.                                            *)
(***************************************************************************)
EXTENDS Naturals, Sequences, FiniteSets

CONSTANTS
    Dispatchers,    \* MessageDispatcher objects
    Types,          \* message types
    Rules,          \* rules, each the set of types it holds for
    MaxDelegates,   \* bound on m_delegated_dispatchers of one dispatcher
    MaxFilters,     \* bound on the filters of one chain
    MaxDepth        \* bound on the dispatch() calls nested by handlers

ASSUME Rules \subseteq SUBSET Types

Policies == {"ExactMatchingToAccessList", "PermitAllExceptForbidden",
             "ForbidAllExceptPermitted"}

\* A RuleBasedMessageFilter built with a policy, or with none (m_policy {}
\* is then the first enumerator, ExactMatchingToAccessList), and given its
\* permit() and forbid() rules before addFilter takes it.
Filters == [policy : Policies, permitted : SUBSET Rules, forbidden : SUBSET Rules]

VARIABLES
    handlers,    \* m_handlers: the types each dispatcher has a handler for
    delegates,   \* m_delegated_dispatchers
    chain,       \* m_filter_chain.m_filters
    stack        \* the nested calls: [d, type, via, pc]

vars == <<handlers, delegates, chain, stack>>

Init ==
    /\ handlers = [d \in Dispatchers |-> {}]
    /\ delegates = [d \in Dispatchers |-> <<>>]
    /\ chain = [d \in Dispatchers |-> <<>>]
    /\ stack = <<>>

Top == stack[Len(stack)]
Pop == stack' = SubSeq(stack, 1, Len(stack) - 1)
SetTop(pc) == stack' = [stack EXCEPT ![Len(stack)].pc = pc]

\* The application's thread, or a handler running on it, makes the call.
Caller == IF stack = <<>> THEN TRUE ELSE Top.pc = "handler"

\* RuleBasedMessageFilter::satisfies: any_of the rules holds.
Satisfies(t, rules) == \E r \in rules : t \in r

\* Mutant: the exact policy takes the permitted or the not forbidden.
RuleMatchesEither(f, t) ==
    CASE f.policy = "PermitAllExceptForbidden" -> ~Satisfies(t, f.forbidden)
      [] f.policy = "ForbidAllExceptPermitted" -> Satisfies(t, f.permitted)
      [] f.policy = "ExactMatchingToAccessList" ->
             Satisfies(t, f.permitted) \/ ~Satisfies(t, f.forbidden)

\* RuleBasedMessageFilter::matches
RuleMatches(f, t) ==
    CASE f.policy = "PermitAllExceptForbidden" -> ~Satisfies(t, f.forbidden)
      [] f.policy = "ForbidAllExceptPermitted" -> Satisfies(t, f.permitted)
      [] f.policy = "ExactMatchingToAccessList" ->
             Satisfies(t, f.permitted) /\ ~Satisfies(t, f.forbidden)

\* MessageFilterChain::matches: every filter, in order, matches.
ChainMatches(d, t) == \A i \in 1..Len(chain[d]) : RuleMatches(chain[d][i], t)

\* searchWithinDelegatedDispatchers: the first delegated dispatcher that
\* has a handler for the type; none is the empty set.
SearchWithinDelegatedDispatchers(d, t) ==
    LET I == {i \in 1..Len(delegates[d]) : t \in handlers[delegates[d][i]]}
    IN IF I = {} THEN {}
       ELSE {delegates[d][CHOOSE i \in I : \A j \in I : i <= j]}

\* addHandler: m_handlers[type] = handler, replacing an earlier one.
AddHandler(d, t) ==
    /\ Caller
    /\ handlers' = [handlers EXCEPT ![d] = @ \cup {t}]
    /\ UNCHANGED <<delegates, chain, stack>>

\* addDelegatedDispatcher: push_back, itself or a duplicate included.
AddDelegatedDispatcher(d, e) ==
    /\ Caller /\ Len(delegates[d]) < MaxDelegates
    /\ delegates' = [delegates EXCEPT ![d] = Append(@, e)]
    /\ UNCHANGED <<handlers, chain, stack>>

\* filter().addFilter(filter) with a non-null filter.
AddFilter(d, f) ==
    /\ Caller /\ Len(chain[d]) < MaxFilters
    /\ chain' = [chain EXCEPT ![d] = Append(@, f)]
    /\ UNCHANGED <<handlers, delegates, stack>>

\* dispatch(msg), from the application or from a handler.
Dispatch(d, t) ==
    /\ Caller /\ Len(stack) < MaxDepth
    /\ stack' = Append(stack, [d |-> d, type |-> t, via |-> "call", pc |-> "enter"])
    /\ UNCHANGED <<handlers, delegates, chain>>

\* doDispatch: the branch the top call takes.
DoDispatch ==
    /\ stack # <<>> /\ Top.pc = "enter"
    /\ LET d == Top.d
           t == Top.type
       IN \/ t \notin handlers[d] /\ SearchWithinDelegatedDispatchers(d, t) = {} /\ Pop
          \/ t \notin handlers[d]
             /\ \E e \in SearchWithinDelegatedDispatchers(d, t) :
                   stack' = Append([stack EXCEPT ![Len(stack)].pc = "delegated"],
                                   [d |-> e, type |-> t, via |-> "delegate", pc |-> "enter"])
          \/ t \in handlers[d] /\ ChainMatches(d, t) /\ SetTop("handler")
          \* onMessageRejected: the no-op the constructor installs, or the
          \* application's callback; it returns or throws.
          \/ t \in handlers[d] /\ ~ChainMatches(d, t) /\ Pop
    /\ UNCHANGED <<handlers, delegates, chain>>

\* The handler returns or throws into the catch (...); or the delegate's
\* dispatch has returned, and so does this one.
Return ==
    /\ stack # <<>> /\ Top.pc \in {"handler", "delegated"}
    /\ Pop
    /\ UNCHANGED <<handlers, delegates, chain>>

Next ==
    \/ \E d \in Dispatchers, t \in Types : AddHandler(d, t) \/ Dispatch(d, t)
    \/ \E d, e \in Dispatchers : AddDelegatedDispatcher(d, e)
    \/ \E d \in Dispatchers, f \in Filters : AddFilter(d, f)
    \/ DoDispatch \/ Return

\* One thread runs the nested calls to their end.
Spec == Init /\ [][Next]_vars /\ WF_vars(DoDispatch \/ Return)

-----------------------------------------------------------------------------
\* The types a filter lets through, as its policy names them: all but the
\* forbidden, only the permitted, or the permitted that are not forbidden.
Admitted(f) ==
    CASE f.policy = "PermitAllExceptForbidden" -> Types \ UNION f.forbidden
      [] f.policy = "ForbidAllExceptPermitted" -> UNION f.permitted
      [] f.policy = "ExactMatchingToAccessList" -> UNION f.permitted \ UNION f.forbidden

\* A handler is called only for a message that every filter of its
\* dispatcher's chain admits, whether the message came from the
\* application, from a handler, or through a delegation.
HandlerOnlyForAdmitted ==
    [][\A i \in 1..Len(stack') :
          (stack'[i].pc = "handler" /\ (i > Len(stack) \/ stack[i].pc # "handler"))
             => \A j \in 1..Len(chain[stack'[i].d]) :
                   stack'[i].type \in Admitted(chain[stack'[i].d][j])]_vars
=============================================================================
