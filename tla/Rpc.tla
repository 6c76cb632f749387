--------------------------------- MODULE Rpc ---------------------------------
(***************************************************************************)
(* Calls through remote endpoints: RemoteEndpoint                          *)
(* (src/src/l3_rpc/remote_endpoint.cpp, remote_endpoint.tpp.h),            *)
(* LocalEndpoint and its items (local_endpoint.cpp, item.cpp, function.cpp,*)
(* function.h, dynamic_call.h).                                            *)
(*                                                                         *)
(* A remote endpoint loops its packets back, so that a call is a nest of   *)
(* C++ calls on the caller's stack: call, send_packet, handle_call, the    *)
(* bound function, which may call again through any endpoint or throw, and *)
(* handle_result.  Nothing is locked: one thread uses an endpoint.  Each   *)
(* remote endpoint has a pool of packets and one slot for a result; a      *)
(* string that a call returns points into the packet of its reply, which   *)
(* is recycled before the caller sees it: the next call through the same   *)
(* endpoint writes over it, and a function that still has the pointer      *)
(* reads what is there then.                                               *)
(***************************************************************************)
EXTENDS Naturals, Sequences, SequencesExt

CONSTANTS
    Remotes,       \* the remote endpoints that connect() created
    PoolSize,      \* PACKET_POOL_SIZE
    Names,         \* names that functions are bound to and called by: sequences
    Letters,       \* of letters,
    Digits,        \* digits
    Underscore,    \* and the underscore, or of other characters
    ParamTypes,    \* types of parameters
    Signatures,    \* lists of them
    ArgLists,      \* argument lists of callers
    TooLong,       \* an argument or a result that does not fit into a packet
    Integers,      \* arguments and results that are numbers, which are copied,
    Strings,       \* and that are strings, which are not
    Garbled,       \* what is read where a string was written over by no string
    Nothing,       \* no item, no packet, no string
    RightToLeft,   \* the compiler evaluates arguments from right to left
    MaxDepth,      \* bound on nested calls
    MaxHeld        \* bound on the strings one function keeps at a time

Packets == 1..PoolSize
Results == Integers \cup Strings \cup {TooLong}
Contents == Results \cup {Garbled, Nothing}
Arguments == [type : ParamTypes, v : Results]
Received == [type : ParamTypes, v : Contents]

ASSUME RpcAssumption ==
    /\ PoolSize \in Nat \ {0}
    /\ Nothing \notin Packets
    /\ ArgLists \subseteq Seq(Arguments)

VARIABLES
    items,     \* m_items: the signature of the function of each name
    stack,     \* the calls under way, the innermost last
    free,      \* the free list of each pool, the first packet first
    slot,      \* m_received_result of each remote endpoint
    content,   \* the result that each packet holds, if any
    exc,       \* the exception in flight
    held,      \* the strings that functions got from calls: pointers into packets,
               \* and what they pointed to at first
    old,       \* history: those whose endpoint has received another call since
    last       \* history: how the last call ended

vars == <<items, stack, free, slot, content, exc, held, old, last>>

None == "none"

Top == stack[Len(stack)]
Popped == SubSeq(stack, 1, Len(stack) - 1)
Types(args) == [i \in DOMAIN args |-> args[i].type]

\* LocalEndpoint::connect, for each remote endpoint, and alloc_packets.
Init ==
    /\ items = [n \in Names |-> Nothing]
    /\ stack = <<>>
    /\ free = [r \in Remotes |-> [i \in Packets |-> PoolSize + 1 - i]]
    /\ slot = [r \in Remotes |-> Nothing]
    /\ content = [r \in Remotes |-> [p \in Packets |-> Nothing]]
    /\ exc = None
    /\ held = {} /\ old = {}
    /\ last = [ok |-> FALSE]

\* User code is running, in a bound function or outside of all.
Running == exc = None /\ (stack # <<>> => Top.phase = "running")

\* RecyclingPool::take and add at the head of the list.
Recycled(r, ps) == [free EXCEPT ![r] = ps \o @]
Taken(r) == [free EXCEPT ![r] = Tail(@)]

\* Item::is_valid_name
is_valid_name(name) ==
    /\ name # <<>>
    /\ name[1] \in Letters
    /\ \A i \in DOMAIN name : name[i] \in Letters \cup Digits \cup {Underscore}

\* Mutation of Bind: `m_items[name] = item'.
Bind_Replace(name, sig) ==
    /\ Running
    /\ \/ /\ is_valid_name(name)
          /\ items' = [items EXCEPT ![name] = sig]
          /\ UNCHANGED exc
       \/ /\ ~is_valid_name(name)
          /\ exc' = "ERR_INVALID_IDENTIFIER"
          /\ UNCHANGED items
    /\ UNCHANGED <<stack, free, slot, content, held, old, last>>

\* LocalEndpoint::bind, also from within a function.  A second item of the same
\* name is refused and never deleted.
Bind(name, sig) ==
    /\ Running
    /\ \/ /\ is_valid_name(name) /\ items[name] = Nothing
          /\ items' = [items EXCEPT ![name] = sig]
          /\ UNCHANGED exc
       \/ /\ ~is_valid_name(name)
          /\ exc' = "ERR_INVALID_IDENTIFIER"
          /\ UNCHANGED items
       \/ /\ is_valid_name(name) /\ items[name] # Nothing
          /\ exc' = "ERR_ITEM_ALREADY_EXISTING"
          /\ UNCHANGED items
    /\ UNCHANGED <<stack, free, slot, content, held, old, last>>

\* Mutation of Passed: the iterator goes upwards.
Passed_Upwards(args) == IF RightToLeft THEN Reverse(args) ELSE args

\* dynamic_call: each evaluation of an argument takes the last argument of the list
\* that is left.
Passed(args) == IF RightToLeft THEN args ELSE Reverse(args)

\* function::check_args, and TypedValue::get in dynamic_call.
Check(sig, args) ==
    IF Len(sig) # Len(args) THEN "ERR_PARAM_NUM_MISMATCH"
    ELSE IF Types(args) # sig THEN "ERR_PARAM_TYPE_MISMATCH"
    ELSE IF Types(Passed(args)) # sig THEN "ERR_BAD_VALUE_ACCESS"
    ELSE None

\* What becomes of a call for which there is a packet.
Reception(name, args) ==
    IF \E i \in DOMAIN args : args[i].v = TooLong THEN "ERR_PACKET_FULL"
    ELSE IF items[name] = Nothing THEN "ERR_RPC_NOT_FOUND"
    ELSE Check(items[name], args)

\* Mutation of CallRefused: the packet is recycled only if the call is sent.
CallRefused_PacketLeaks(r, name, args) ==
    /\ exc' = IF free[r] = <<>> THEN "ERR_OUT_OF_PACKETS" ELSE Reception(name, args)
    /\ free' = IF free[r] = <<>> THEN free ELSE Taken(r)
    /\ last' = [ok |-> FALSE]
    /\ UNCHANGED <<items, stack, slot, content, held, old>>

\* A call that fails before its function runs.  Its packet comes back to the head
\* of the list.
CallRefused(r, name, args) ==
    /\ exc' = IF free[r] = <<>> THEN "ERR_OUT_OF_PACKETS" ELSE Reception(name, args)
    /\ content' = IF free[r] = <<>> THEN content
                  ELSE [content EXCEPT ![r][Head(free[r])] = Nothing]
    /\ last' = [ok |-> FALSE]
    /\ UNCHANGED <<items, stack, free, slot, held, old>>

\* The strings of the running function, and those that are called `value'.
Own == {h \in held : h.level = Len(stack)}
Pointers(v) == {h \in Own : h.value = v} \cup {Nothing}

\* What is read through the pointer of a held string.
Read(h) ==
    LET c == content[h.remote][h.packet] IN IF c \in Strings THEN c ELSE Garbled

\* Where the arguments come from: a string may be one that the caller has got.
Sources(args) ==
    {from \in [DOMAIN args -> Own \cup {Nothing}] :
        \A i \in DOMAIN args : from[i] \in Pointers(args[i].v)}

\* The arguments as they get into packet p of endpoint r: a string that lies in p
\* is at another place there than in a call.
Written(args, from, r, p) ==
    [i \in DOMAIN args |->
        IF from[i] = Nothing THEN args[i]
        ELSE IF <<from[i].remote, from[i].packet>> = <<r, p>>
        THEN [args[i] EXCEPT !.v = Garbled]
        ELSE [args[i] EXCEPT !.v = Read(from[i])]]

\* RemoteEndpoint::call up to the first instruction of the function.
CallReceived(r, name, args, from) ==
    LET p == Head(free[r])
    IN  /\ stack' = Append(stack, [remote |-> r, packet |-> p, name |-> name,
                                   args |-> args,
                                   outdated |-> {i \in DOMAIN args : from[i] \in old},
                                   passed |-> Passed(Written(args, from, r, p)),
                                   phase |-> "running", answer |-> Nothing])
        /\ free' = Taken(r)
        /\ content' = [content EXCEPT ![r][p] = Nothing]
        /\ old' = old \cup {h \in held : h.remote = r}
        /\ UNCHANGED <<items, slot, exc, held, last>>

Call(r, name, args) ==
    /\ Running
    /\ \/ (free[r] = <<>> \/ Reception(name, args) # None) /\ CallRefused(r, name, args)
       \/ /\ free[r] # <<>> /\ Reception(name, args) = None /\ Len(stack) < MaxDepth
          /\ \E from \in Sources(args) : CallReceived(r, name, args, from)

\* The strings of a function are gone with it.
ForgetOwn == held' = held \ Own /\ old' = old \ Own

\* The function has returned but handle_call cannot reply: all of the call's
\* packets are recycled.
ReplyFails(e) ==
    /\ exc' = e
    /\ stack' = Popped
    /\ free' = Recycled(Top.remote, <<Top.packet>>)
    /\ last' = [ok |-> FALSE]
    /\ ForgetOwn
    /\ UNCHANGED <<items, slot>>

\* What the writer copies into the reply when a function returns v, its own or the
\* string that it got at h.  If h is in the packet of the reply, it is at the place
\* where the reply has it.
Copied(v, h) == IF h = Nothing THEN v ELSE Read(h)

\* The answer that this call has: what the function returns, or what it reads then
\* if this is an old string.
Answer(v, h) == IF h \in old THEN Copied(v, h) ELSE v

\* handle_call writes the reply and handle_result moves it into the slot, whose
\* previous packet, if any, is recycled.
Reply(v, h) ==
    LET r == Top.remote  p == Head(free[r])
    IN  /\ content' = [content EXCEPT ![r][p] = Copied(v, h)]
        /\ slot' = [slot EXCEPT ![r] = p]
        /\ free' = [free EXCEPT ![r] =
                       IF slot[r] = Nothing THEN Tail(@) ELSE <<slot[r]>> \o Tail(@)]
        /\ stack' = [stack EXCEPT ![Len(stack)].phase = "replied",
                                  ![Len(stack)].answer = Answer(v, h)]
        /\ ForgetOwn
        /\ UNCHANGED <<items, exc, last>>

Return(v) ==
    /\ Running /\ stack # <<>>
    /\ \/ free[Top.remote] = <<>> /\ ReplyFails("ERR_OUT_OF_PACKETS") /\ UNCHANGED content
       \/ /\ free[Top.remote] # <<>> /\ v = TooLong
          /\ ReplyFails("ERR_PACKET_FULL")
          /\ content' = [content EXCEPT ![Top.remote][Head(free[Top.remote])] = Nothing]
       \/ /\ free[Top.remote] # <<>> /\ v # TooLong
          /\ \E h \in Pointers(v) : Reply(v, h)

\* The caller of the call that is over gets the string of packet p of endpoint r,
\* and keeps at most MaxHeld of those it has now.
Callers == {h \in held : h.level = Len(stack) - 1}
Got(r, p) ==
    IF content[r][p] \in Strings
    THEN {[level |-> Len(stack) - 1, remote |-> r, packet |-> p, value |-> content[r][p]]}
    ELSE {}
Keep(r, p) ==
    \E kept \in SUBSET (Callers \cup Got(r, p)) :
        /\ Cardinality(kept) <= MaxHeld
        /\ held' = (held \ Callers) \cup kept
        /\ old' = (old \cap held') \ Got(r, p)

\* Mutations of TakeResult: the call's packet is recycled before the reply;
\* recycling clears the reply; the slot keeps the reply.
TakeResult_PacketFirst ==
    LET r == Top.remote  p == slot[r]
    IN  /\ stack # <<>> /\ Top.phase = "replied" /\ exc = None
        /\ p # Nothing
        /\ last' = [ok |-> TRUE, answer |-> content[r][p]]
        /\ Keep(r, p)
        /\ slot' = [slot EXCEPT ![r] = Nothing]
        /\ free' = Recycled(r, <<p, Top.packet>>)
        /\ stack' = Popped
        /\ UNCHANGED <<items, content, exc>>

TakeResult_Wiped ==
    LET r == Top.remote  p == slot[r]
    IN  /\ stack # <<>> /\ Top.phase = "replied" /\ exc = None
        /\ p # Nothing
        /\ last' = [ok |-> TRUE, answer |-> content[r][p]]
        /\ Keep(r, p)
        /\ content' = [content EXCEPT ![r][p] = Garbled]
        /\ slot' = [slot EXCEPT ![r] = Nothing]
        /\ free' = Recycled(r, <<Top.packet, p>>)
        /\ stack' = Popped
        /\ UNCHANGED <<items, exc>>

TakeResult_SlotKept ==
    LET r == Top.remote  p == slot[r]
    IN  /\ stack # <<>> /\ Top.phase = "replied" /\ exc = None
        /\ p # Nothing
        /\ last' = [ok |-> TRUE, answer |-> content[r][p]]
        /\ Keep(r, p)
        /\ free' = Recycled(r, <<Top.packet>>)
        /\ stack' = Popped
        /\ UNCHANGED <<items, content, exc, slot>>

\* Back in call: the slot is moved to a local and read; the reply is recycled first
\* and the call's packet after it.  An empty slot would be a null pointer.
TakeResult ==
    LET r == Top.remote  p == slot[r]
    IN  /\ stack # <<>> /\ Top.phase = "replied" /\ exc = None
        /\ p # Nothing
        /\ last' = [ok |-> TRUE, answer |-> content[r][p]]
        /\ Keep(r, p)
        /\ slot' = [slot EXCEPT ![r] = Nothing]
        /\ free' = Recycled(r, <<Top.packet, p>>)
        /\ stack' = Popped
        /\ UNCHANGED <<items, content, exc>>

\* The function throws.
Throw ==
    /\ Running /\ stack # <<>>
    /\ exc' = "thrown by the function"
    /\ UNCHANGED <<items, stack, free, slot, content, held, old, last>>

\* Mutation of Unwind: a raw pointer, not a packet_ptr.
Unwind_PacketLeaks ==
    /\ exc # None /\ stack # <<>>
    /\ stack' = Popped
    /\ ForgetOwn
    /\ last' = [ok |-> FALSE]
    /\ UNCHANGED <<items, free, slot, content, exc>>

\* An exception that a function lets through leaves the call that runs it, and
\* packet_ptr recycles its packet.
Unwind ==
    /\ exc # None /\ stack # <<>>
    /\ stack' = Popped
    /\ free' = Recycled(Top.remote, <<Top.packet>>)
    /\ ForgetOwn
    /\ last' = [ok |-> FALSE]
    /\ UNCHANGED <<items, slot, content, exc>>

\* A function, or the program outside of all calls, catches it.
Catch ==
    /\ exc # None
    /\ exc' = None
    /\ UNCHANGED <<items, stack, free, slot, content, held, old, last>>

Next ==
    \/ \E name \in Names, sig \in Signatures : Bind(name, sig)
    \/ \E r \in Remotes, name \in Names, args \in ArgLists : Call(r, name, args)
    \/ \E v \in Results : Return(v)
    \/ TakeResult
    \/ Throw
    \/ Unwind
    \/ Catch

Spec == Init /\ [][Next]_vars

-----------------------------------------------------------------------------
(* Properties. *)

Held == [level : Nat, remote : Remotes, packet : Packets, value : Strings]
Frame == [remote : Remotes, packet : Packets, name : Names, args : ArgLists,
          outdated : SUBSET Nat, passed : Seq(Received),
          phase : {"running", "replied"}, answer : Contents]

TypeOK ==
    /\ items \in [Names -> Signatures \cup {Nothing}]
    /\ stack \in Seq(Frame)
    /\ free \in [Remotes -> Seq(Packets)]
    /\ slot \in [Remotes -> Packets \cup {Nothing}]
    /\ content \in [Remotes -> [Packets -> Contents]]
    /\ held \subseteq Held /\ old \subseteq held
    /\ exc \in {None, "ERR_INVALID_IDENTIFIER", "ERR_ITEM_ALREADY_EXISTING",
                "ERR_OUT_OF_PACKETS", "ERR_PACKET_FULL", "ERR_RPC_NOT_FOUND",
                "ERR_PARAM_NUM_MISMATCH", "ERR_PARAM_TYPE_MISMATCH",
                "ERR_BAD_VALUE_ACCESS", "thrown by the function"}

CallsOn(r) == {i \in DOMAIN stack : stack[i].remote = r}

\* However calls nest, fail and throw, each packet of a remote endpoint is in its
\* free list, in its slot or held by one call, once; no exception loses one
\* (packet_ptr in call, handle_call and handle_result).
Busy(r) == {stack[i].packet : i \in CallsOn(r)} \cup ({slot[r]} \ {Nothing})
PacketsAccounted ==
    \A r \in Remotes :
        /\ ToSet(free[r]) \cup Busy(r) = Packets
        /\ ToSet(free[r]) \cap Busy(r) = {}
        /\ \A i, j \in DOMAIN free[r] : free[r][i] = free[r][j] => i = j
        /\ \A i, j \in CallsOn(r) : stack[i].packet = stack[j].packet => i = j
        /\ \A i \in CallsOn(r) : stack[i].packet # slot[r]

\* The single slot is full only between a reply and the return of the call it
\* answers, the innermost one, whatever endpoints the calls went through; so no
\* call finds a stale result or none (m_received_result).
SlotIsForInnermost ==
    \A r \in Remotes :
        slot[r] # Nothing <=> stack # <<>> /\ Top.phase = "replied" /\ Top.remote = r

\* A function gets the arguments that the caller passed, in their order; a string
\* that the caller got from a call, which lies in a packet that is free, arrives
\* as the caller got it unless the endpoint it came through has received another
\* call since, whatever other endpoints did, was refused or thrown in between
\* (dynamic_call, TypedValue, RecyclingPool).
ArgumentsArrive ==
    \A i \in DOMAIN stack :
        LET c == stack[i]
        IN  /\ DOMAIN c.passed = DOMAIN c.args
            /\ \A j \in DOMAIN c.args \ c.outdated : c.passed[j] = c.args[j]

\* A running function is bound under the name it was called by, and with the types
\* of the arguments it got, although functions are bound while calls are running
\* (check_args, register_item).
CalledAsBound ==
    \A i \in DOMAIN stack : items[stack[i].name] = Types(stack[i].passed)

\* A call is refused, or fails after its function has run, for want of packets
\* only while as many calls are under way through its own endpoint as that one's
\* pool has packets, however many other endpoints have (take_packet in call and
\* handle_call).
CallsThrough(r) == \E name \in Names, args \in ArgLists : Call(r, name, args)
ReturnsThrough(r) == stack # <<>> /\ Top.remote = r /\ \E v \in Results : Return(v)
OutOfPacketsOnlyAtDepth ==
    [][\A r \in Remotes :
          (CallsThrough(r) \/ ReturnsThrough(r)) /\ exc' = "ERR_OUT_OF_PACKETS"
              => Cardinality(CallsOn(r)) = PoolSize]_vars

\* Calls through any mixture of endpoints behave as a stack of calls, each of which
\* ends with the answer of its own function or fails.  The answer of a function
\* that passes on a string of an inner call is this string as it was got; but if
\* the endpoint of the inner call has received another one since, it is what has
\* been written over the string (RemoteEndpoint::call; see StringsStay).
Service == INSTANCE CallStack WITH
    Calls   <- Names \X ArgLists,
    Answers <- Contents,
    pending <- [i \in DOMAIN stack |->
                   [call  |-> <<stack[i].name, stack[i].args>>,
                    ended |-> IF stack[i].phase = "running" THEN [ok |-> FALSE]
                              ELSE [ok |-> TRUE, answer |-> stack[i].answer]]],
    outcome <- last
ImplementsCallStack == Service!Spec

-----------------------------------------------------------------------------
(* What a caller might expect and the code does not keep. *)

\* A string that a call has returned stays what it is as long as the caller keeps
\* it: RemoteEndpoint::call returns a TypedValue by value, but a string in it is a
\* pointer into the packet that the reply of the next call takes.
StringsStay == \A h \in held : Read(h) = h.value
=============================================================================
