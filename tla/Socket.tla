-------------------------------- MODULE Socket --------------------------------
(***************************************************************************)
(* The ownership of socket descriptors: sys::Socket                        *)
(* (src/src/l0_system/socket.cpp).  A Socket object holds one descriptor   *)
(* or none; it can be moved but not copied, and closes what it holds when  *)
(* it is assigned to or destroyed.  Descriptors are numbers that the       *)
(* kernel gives out again once they are closed, to this class or to other  *)
(* code in the process, so that a number closed twice closes a file of     *)
(* somebody else.  An object is used by one thread at a time; other code   *)
(* opens and closes files at any moment.                                   *)
(***************************************************************************)
EXTENDS Naturals

CONSTANTS
    Objects,       \* places in memory where a Socket may be
    Fds,           \* the descriptors the process may have
    INVALID,       \* INVALID_SOCKFD
    Handlers,      \* what on_receive_ready may be given
    NoHandler      \* an empty std::function

ASSUME SocketAssumption == INVALID \notin Fds /\ NoHandler \notin Handlers

VARIABLES
    live,             \* the places where an object is
    m_sockfd,         \* the descriptor of each object
    m_receive_ready,  \* the callback of each object
    table,            \* the kernel's table: what each descriptor stands for
    wanted,           \* history: the callback registered last for a descriptor
    aborted           \* the error with which a destructor threw (std::terminate), or "none"

vars == <<live, m_sockfd, m_receive_ready, table, wanted, aborted>>

\* What a descriptor of this class stands for, by the system calls made on it.
OpenSocket == {"new", "bound", "listening", "connected"}

Init ==
    /\ live = {}
    /\ m_sockfd = [o \in Objects |-> INVALID]
    /\ m_receive_ready = [o \in Objects |-> NoHandler]
    /\ table = [fd \in Fds |-> "free"]
    /\ wanted = [fd \in Fds |-> NoHandler]
    /\ aborted = "none"

\* An object comes into being at o with descriptor fd.
Constructed(o, fd, handler) ==
    /\ o \notin live /\ live' = live \cup {o}
    /\ m_receive_ready' = [m_receive_ready EXCEPT ![o] = handler]

Construct(o) ==
    /\ Constructed(o, INVALID, NoHandler)
    /\ m_sockfd' = [m_sockfd EXCEPT ![o] = INVALID]
    /\ UNCHANGED <<table, wanted, aborted>>

\* set_sockfd with a descriptor that the kernel has just given out.
Obtained(o, fd, what) ==
    /\ table[fd] = "free"
    /\ table' = [table EXCEPT ![fd] = what]
    /\ m_sockfd' = [m_sockfd EXCEPT ![o] = fd]
    /\ wanted' = [wanted EXCEPT ![fd] = NoHandler]

\* The constructor that opens a socket.  When it throws there is no object.
Create(o, fd) ==
    /\ Constructed(o, fd, NoHandler)
    /\ Obtained(o, fd, "new")
    /\ UNCHANGED aborted

\* Mutation of MoveConstruct: the source keeps its descriptor.
MoveConstruct_SourceKeeps(o, from) ==
    /\ from \in live
    /\ Constructed(o, m_sockfd[from], m_receive_ready[from])
    /\ m_sockfd' = [m_sockfd EXCEPT ![o] = m_sockfd[from]]
    /\ UNCHANGED <<table, wanted, aborted>>

\* The move constructor.
MoveConstruct(o, from) ==
    /\ from \in live
    /\ Constructed(o, m_sockfd[from], m_receive_ready[from])
    /\ m_sockfd' = [m_sockfd EXCEPT ![o] = m_sockfd[from], ![from] = INVALID]
    /\ UNCHANGED <<table, wanted, aborted>>

\* What ::close() may say of the descriptor that o holds.  The kernel refuses one that
\* is not open, and closes any other, whoever opened it; of one that it closes it may
\* still report that data was lost.
CloseReports(o) == IF m_sockfd[o] = INVALID THEN {"none"}
                   ELSE IF table[m_sockfd[o]] = "free" THEN {"EBADF"}
                   ELSE {"none", "EIO"}

\* Socket::close frees the number in each case ...
Closed(o) == [fd \in Fds |-> IF fd = m_sockfd[o] THEN "free" ELSE table[fd]]

\* Mutations of MoveAssign: what o holds is not closed; the callback stays behind;
\* the descriptor is copied and not taken from the source.
MoveAssign_NotClosed(o, from) ==
    /\ o \in live /\ from \in live /\ o # from
    /\ m_sockfd' = [m_sockfd EXCEPT ![o] = m_sockfd[from], ![from] = INVALID]
    /\ m_receive_ready' = [m_receive_ready EXCEPT ![o] = m_receive_ready[from]]
    /\ UNCHANGED <<live, table, wanted, aborted>>

MoveAssign_CallbackStays(o, from) ==
    /\ o \in live /\ from \in live
    /\ table' = Closed(o)
    /\ m_sockfd' = [m_sockfd EXCEPT ![o] = m_sockfd[from], ![from] = INVALID]
    /\ UNCHANGED <<live, m_receive_ready, wanted, aborted>>

MoveAssign_Copied(o, from) ==
    /\ o \in live /\ from \in live
    /\ table' = Closed(o)
    /\ m_sockfd' = [m_sockfd EXCEPT ![o] = m_sockfd[from]]
    /\ m_receive_ready' = [m_receive_ready EXCEPT ![o] = m_receive_ready[from]]
    /\ UNCHANGED <<live, wanted, aborted>>

\* Move assignment, also from the object itself, which loses its socket by it.
\* When close() throws, o holds nothing and the source is as before.
MoveAssign(o, from) ==
    /\ o \in live /\ from \in live
    /\ table' = Closed(o)
    /\ \/ /\ "none" \in CloseReports(o)
          /\ m_sockfd' = [m_sockfd EXCEPT ![o] = m_sockfd[from], ![from] = INVALID]
          /\ m_receive_ready' = [m_receive_ready EXCEPT ![o] = m_receive_ready[from]]
       \/ /\ CloseReports(o) # {"none"}
          /\ m_sockfd' = [m_sockfd EXCEPT ![o] = INVALID]
          /\ UNCHANGED m_receive_ready
    /\ UNCHANGED <<live, wanted, aborted>>

\* The destructor, at the end of a scope and when an exception leaves it.  If close()
\* throws the program ends.
Destroy(o) ==
    /\ o \in live
    /\ live' = live \ {o}
    /\ table' = Closed(o)
    /\ m_sockfd' = [m_sockfd EXCEPT ![o] = INVALID]
    /\ m_receive_ready' = [m_receive_ready EXCEPT ![o] = NoHandler]
    /\ aborted' \in CloseReports(o)
    /\ UNCHANGED wanted

\* A system call turns o's descriptor from one of the states `before' into `after',
\* or fails and changes nothing.
Turns(o, before, after) ==
    /\ o \in live /\ m_sockfd[o] # INVALID /\ table[m_sockfd[o]] \in before
    /\ table' = [table EXCEPT ![m_sockfd[o]] = after]
    /\ UNCHANGED <<live, m_sockfd, m_receive_ready, wanted, aborted>>

bind(o)    == Turns(o, {"new"}, "bound")
listen(o)  == Turns(o, {"new", "bound"}, "listening")
connect(o) == Turns(o, {"new", "bound"}, "connected")

\* accept() constructs an object at o.  When the address of the peer cannot be
\* had any more for the log, the exception destroys it again.
accept(server, o, fd) ==
    /\ server \in live /\ m_sockfd[server] # INVALID
    /\ table[m_sockfd[server]] = "listening"
    /\ Constructed(o, fd, NoHandler)
    /\ Obtained(o, fd, "connected")
    /\ UNCHANGED aborted

on_receive_ready(o, handler) ==
    /\ o \in live
    /\ m_receive_ready' = [m_receive_ready EXCEPT ![o] = handler]
    /\ wanted' = [fd \in Fds |-> IF fd = m_sockfd[o] THEN handler ELSE wanted[fd]]
    /\ UNCHANGED <<live, m_sockfd, table, aborted>>

\* Other code of the process opens a file and closes it.
ForeignOpen(fd) ==
    /\ table[fd] = "free"
    /\ table' = [table EXCEPT ![fd] = "foreign"]
    /\ UNCHANGED <<live, m_sockfd, m_receive_ready, wanted, aborted>>

ForeignClose(fd) ==
    /\ table[fd] = "foreign"
    /\ table' = [table EXCEPT ![fd] = "free"]
    /\ UNCHANGED <<live, m_sockfd, m_receive_ready, wanted, aborted>>

Next ==
    /\ aborted = "none"
    /\ \/ \E o \in Objects :
             \/ Construct(o) \/ Destroy(o)
             \/ bind(o) \/ listen(o) \/ connect(o)
             \/ \E fd \in Fds : Create(o, fd)
             \/ \E from \in Objects : MoveConstruct(o, from) \/ MoveAssign(o, from)
             \/ \E server \in Objects, fd \in Fds : accept(server, o, fd)
             \/ \E handler \in Handlers : on_receive_ready(o, handler)
       \/ \E fd \in Fds : ForeignOpen(fd) \/ ForeignClose(fd)

Spec == Init /\ [][Next]_vars

-----------------------------------------------------------------------------
(* Properties. *)

Holds(o, fd) == o \in live /\ m_sockfd[o] = fd

TypeOK ==
    /\ live \subseteq Objects
    /\ m_sockfd \in [Objects -> Fds \cup {INVALID}]
    /\ \A o \in Objects \ live : m_sockfd[o] = INVALID
    /\ m_receive_ready \in [Objects -> Handlers \cup {NoHandler}]
    /\ table \in [Fds -> OpenSocket \cup {"free", "foreign"}]
    /\ wanted \in [Fds -> Handlers \cup {NoHandler}]
    /\ aborted \in {"none", "EBADF", "EIO"}

\* "ensure descriptor is not closed twice": through all moves, assignments and
\* exceptions no two objects hold one descriptor, and what an object holds is an
\* open socket of this class and not a number that was given to somebody else.
OneOwner ==
    /\ \A o \in live : m_sockfd[o] # INVALID => table[m_sockfd[o]] \in OpenSocket
    /\ \A o, p \in live : m_sockfd[o] = m_sockfd[p] /\ m_sockfd[o] # INVALID => o = p

\* No socket is forgotten: each one that is open is held by an object, whose
\* destructor will close it.
NoneLeaked == \A fd \in Fds : table[fd] \in OpenSocket => \E o \in live : m_sockfd[o] = fd

\* The callback goes with the socket: however often it was moved, data that arrives
\* is reported to the callback registered last for this socket.
CallbackFollows ==
    \A o \in live : m_sockfd[o] # INVALID => m_receive_ready[o] = wanted[m_sockfd[o]]

\* No destructor ends the program because the descriptor was closed before.
NoneClosedTwice == aborted # "EBADF"

\* Open sockets and the objects that hold one match one to one, so that close() in
\* a destructor or an assignment neither comes twice nor is missed.
DescriptorsOwned == OneOwner /\ NoneLeaked /\ NoneClosedTwice

\* No step of a Socket closes, or changes, a file that other code has opened.
ForeignUntouched ==
    [][\A fd \in Fds : table[fd] = "foreign" /\ table'[fd] # "foreign"
            => ForeignClose(fd)]_vars
=============================================================================
