----------------------------- MODULE SocketProofs -----------------------------
(***************************************************************************)
(* Socket for any number of objects and descriptors: the properties are    *)
(* inductive together.  That no close() is refused needs that what an      *)
(* object holds is open, which needs that no other object can close it;    *)
(* that the callback follows a descriptor needs that nobody else registers *)
(* one for it.                                                             *)
(***************************************************************************)
EXTENDS Socket, TLAPS

IInv == TypeOK /\ OneOwner /\ NoneLeaked /\ CallbackFollows /\ NoneClosedTwice

\* The kernel never refuses what Socket::close gives it, which is exactly what the
\* object holds.
LEMMA CloseWorks ==
  ASSUME IInv, NEW o \in live
  PROVE  /\ "EBADF" \notin CloseReports(o)
         /\ CloseReports(o) \subseteq {"none", "EIO"}
         /\ Closed(o) \in [Fds -> OpenSocket \cup {"free", "foreign"}]
         /\ \A fd \in Fds : fd # m_sockfd[o] => Closed(o)[fd] = table[fd]
         /\ \A fd \in Fds : fd = m_sockfd[o] => Closed(o)[fd] = "free"
  BY DEF IInv, TypeOK, OneOwner, OpenSocket, CloseReports, Closed

\* The objects that Socket() and the opening constructors add.
LEMMA ConstructStep ==
  ASSUME IInv, NEW o \in Objects, Construct(o)
  PROVE  IInv'
  <1>1. TypeOK'
    BY SocketAssumption DEF IInv, TypeOK, Construct, Constructed
  <1>2. OneOwner' /\ CallbackFollows'
    BY DEF IInv, TypeOK, OneOwner, CallbackFollows, Construct, Constructed
  <1>3. NoneLeaked'
    <2> SUFFICES ASSUME NEW fd \in Fds, table[fd] \in OpenSocket
                 PROVE  \E p \in live' : m_sockfd'[p] = fd
      BY DEF NoneLeaked, Construct
    <2>1. PICK p \in live : m_sockfd[p] = fd
      BY DEF IInv, NoneLeaked
    <2> QED
      BY <2>1 DEF IInv, TypeOK, Construct, Constructed
  <1> QED
    BY <1>1, <1>2, <1>3 DEF IInv, NoneClosedTwice, Construct

LEMMA ObtainStep ==
  ASSUME IInv, NEW o \in Objects, NEW fd \in Fds, NEW what \in OpenSocket,
         Constructed(o, fd, NoHandler), Obtained(o, fd, what), UNCHANGED aborted
  PROVE  IInv'
  <1>1. TypeOK'
    BY DEF IInv, TypeOK, Constructed, Obtained
  <1>2. \A p \in live : m_sockfd[p] # fd
    BY SocketAssumption DEF IInv, TypeOK, OneOwner, OpenSocket, Obtained
  <1>3. OneOwner'
    BY <1>2, SocketAssumption DEF IInv, TypeOK, OneOwner, Constructed, Obtained
  <1>4. CallbackFollows'
    BY <1>2, SocketAssumption DEF IInv, TypeOK, CallbackFollows, Constructed, Obtained
  <1>5. NoneLeaked'
    <2> SUFFICES ASSUME NEW g \in Fds, table'[g] \in OpenSocket
                 PROVE  \E p \in live' : m_sockfd'[p] = g
      BY DEF NoneLeaked
    <2>1. CASE g = fd
      BY <2>1 DEF IInv, TypeOK, Constructed, Obtained
    <2>2. CASE g # fd
      <3>1. PICK p \in live : m_sockfd[p] = g
        BY <2>2 DEF IInv, TypeOK, NoneLeaked, Obtained
      <3> QED
        BY <3>1 DEF IInv, TypeOK, Constructed, Obtained
    <2> QED
      BY <2>1, <2>2
  <1> QED
    BY <1>1, <1>3, <1>4, <1>5 DEF IInv, NoneClosedTwice

LEMMA MoveConstructStep ==
  ASSUME IInv, NEW o \in Objects, NEW from \in Objects, MoveConstruct(o, from)
  PROVE  IInv'
  <1>1. o # from
    BY DEF MoveConstruct, Constructed
  <1>2. TypeOK'
    BY <1>1 DEF IInv, TypeOK, MoveConstruct, Constructed
  <1>3. OneOwner'
    BY <1>1 DEF IInv, TypeOK, OneOwner, MoveConstruct, Constructed
  <1>4. CallbackFollows'
    BY <1>1 DEF IInv, TypeOK, CallbackFollows, MoveConstruct, Constructed
  <1>5. NoneLeaked'
    <2> SUFFICES ASSUME NEW fd \in Fds, table[fd] \in OpenSocket
                 PROVE  \E p \in live' : m_sockfd'[p] = fd
      BY DEF NoneLeaked, MoveConstruct
    <2>1. PICK p \in live : m_sockfd[p] = fd
      BY DEF IInv, NoneLeaked
    <2>2. CASE p = from
      BY <1>1, <2>1, <2>2 DEF IInv, TypeOK, MoveConstruct, Constructed
    <2>3. CASE p # from
      BY <1>1, <2>1, <2>3 DEF IInv, TypeOK, MoveConstruct, Constructed
    <2> QED
      BY <2>2, <2>3
  <1> QED
    BY <1>2, <1>3, <1>4, <1>5 DEF IInv, NoneClosedTwice, MoveConstruct

LEMMA MoveAssignStep ==
  ASSUME IInv, NEW o \in live, NEW from \in live,
         UNCHANGED <<live, wanted, aborted>>, table' = Closed(o),
         m_sockfd' = [m_sockfd EXCEPT ![o] = m_sockfd[from], ![from] = INVALID],
         m_receive_ready' = [m_receive_ready EXCEPT ![o] = m_receive_ready[from]]
  PROVE  IInv'
  <1> DEFINE fds == [m_sockfd EXCEPT ![o] = m_sockfd[from], ![from] = INVALID]
  <1>1. /\ m_sockfd' = fds /\ o \in Objects /\ from \in Objects
        /\ table' = Closed(o) /\ UNCHANGED <<live, wanted, aborted>>
        /\ m_receive_ready' = [m_receive_ready EXCEPT ![o] = m_receive_ready[from]]
    BY DEF IInv, TypeOK
  <1>2. /\ fds \in [Objects -> Fds \cup {INVALID}]
        /\ fds[from] = INVALID
        /\ o # from => fds[o] = m_sockfd[from]
        /\ \A p \in Objects : p # o /\ p # from => fds[p] = m_sockfd[p]
    BY DEF IInv, TypeOK
  <1> HIDE DEF fds
  <1>3. TypeOK'
    BY <1>1, <1>2, CloseWorks DEF IInv, TypeOK
  <1>4. OneOwner'
    <2>1. ASSUME NEW p \in live, fds[p] # INVALID
          PROVE  /\ fds[p] # m_sockfd[o]
                 /\ \E q \in live : fds[p] = m_sockfd[q]
      BY <1>1, <1>2, <2>1 DEF IInv, TypeOK, OneOwner
    <2>2. \A p \in live : fds[p] # INVALID => table'[fds[p]] \in OpenSocket
      BY <1>1, <1>2, <2>1, CloseWorks DEF IInv, TypeOK, OneOwner
    <2>3. \A p, q \in live : fds[p] = fds[q] /\ fds[p] # INVALID => p = q
      BY <1>1, <1>2 DEF IInv, TypeOK, OneOwner
    <2> QED
      BY <1>1, <2>2, <2>3 DEF OneOwner
  <1>5. CallbackFollows'
    BY <1>1, <1>2 DEF IInv, TypeOK, CallbackFollows
  <1>6. NoneLeaked'
    <2> SUFFICES ASSUME NEW fd \in Fds, Closed(o)[fd] \in OpenSocket
                 PROVE  \E p \in live : fds[p] = fd
      BY <1>1 DEF NoneLeaked
    <2>1. fd # m_sockfd[o] /\ table[fd] \in OpenSocket
      BY <1>1, CloseWorks DEF OpenSocket
    <2>2. PICK p \in live : m_sockfd[p] = fd
      BY <2>1 DEF IInv, NoneLeaked
    <2>3. p # o
      BY <2>1, <2>2
    <2>4. CASE p = from
      BY <1>1, <1>2, <2>2, <2>3, <2>4
    <2>5. CASE p # from
      BY <1>2, <2>2, <2>3, <2>5 DEF IInv, TypeOK
    <2> QED
      BY <2>4, <2>5
  <1> QED
    BY <1>1, <1>3, <1>4, <1>5, <1>6 DEF IInv, NoneClosedTwice

\* An assignment that close() interrupts: o has lost its socket, the source is as before.
LEMMA MoveAssignFailsStep ==
  ASSUME IInv, NEW o \in live,
         UNCHANGED <<live, m_receive_ready, wanted, aborted>>, table' = Closed(o),
         m_sockfd' = [m_sockfd EXCEPT ![o] = INVALID]
  PROVE  IInv'
  <1>1. /\ m_sockfd' \in [Objects -> Fds \cup {INVALID}] /\ m_sockfd'[o] = INVALID
        /\ \A p \in Objects : p # o => m_sockfd'[p] = m_sockfd[p]
        /\ live \subseteq Objects
    BY DEF IInv, TypeOK
  <1>2. TypeOK'
    BY <1>1, CloseWorks DEF IInv, TypeOK
  <1>3. \A p \in live : m_sockfd'[p] # INVALID => p # o /\ m_sockfd[p] # m_sockfd[o]
    BY <1>1 DEF IInv, OneOwner
  <1>4. OneOwner'
    <2>1. \A p \in live : m_sockfd'[p] # INVALID => table'[m_sockfd'[p]] \in OpenSocket
      BY <1>1, <1>3, CloseWorks DEF IInv, TypeOK, OneOwner
    <2>2. \A p, q \in live : m_sockfd'[p] = m_sockfd'[q] /\ m_sockfd'[p] # INVALID => p = q
      BY <1>1, <1>3 DEF IInv, OneOwner
    <2> QED
      BY <2>1, <2>2 DEF OneOwner
  <1>5. CallbackFollows'
    BY <1>1, <1>3 DEF IInv, CallbackFollows
  <1>6. NoneLeaked'
    <2> SUFFICES ASSUME NEW fd \in Fds, Closed(o)[fd] \in OpenSocket
                 PROVE  \E p \in live : m_sockfd'[p] = fd
      BY DEF NoneLeaked
    <2>1. fd # m_sockfd[o] /\ table[fd] \in OpenSocket
      BY CloseWorks DEF OpenSocket
    <2>2. PICK p \in live : m_sockfd[p] = fd
      BY <2>1 DEF IInv, NoneLeaked
    <2> QED
      BY <1>1, <2>1, <2>2
  <1> QED
    BY <1>2, <1>4, <1>5, <1>6 DEF IInv, NoneClosedTwice

LEMMA DestroyStep ==
  ASSUME IInv, NEW o \in Objects, Destroy(o)
  PROVE  IInv'
  <1>1. o \in live /\ aborted' \in {"none", "EIO"}
    BY CloseWorks DEF Destroy
  <1>2. NoneClosedTwice'
    BY <1>1 DEF NoneClosedTwice
  <1>3. TypeOK'
    BY <1>1, CloseWorks DEF IInv, TypeOK, Destroy
  <1>4. \A p \in live' : p \in live /\ p # o /\ m_sockfd'[p] = m_sockfd[p]
    BY DEF IInv, TypeOK, Destroy
  <1>5. \A p \in live' : m_sockfd[p] # INVALID => m_sockfd[p] # m_sockfd[o]
    BY <1>1, <1>4 DEF IInv, OneOwner
  <1>6. OneOwner'
    BY <1>1, <1>4, <1>5, CloseWorks DEF IInv, TypeOK, OneOwner, Destroy
  <1>7. CallbackFollows'
    BY <1>4 DEF IInv, TypeOK, CallbackFollows, Destroy
  <1>8. NoneLeaked'
    <2> SUFFICES ASSUME NEW fd \in Fds, Closed(o)[fd] \in OpenSocket
                 PROVE  \E p \in live' : m_sockfd'[p] = fd
      BY DEF NoneLeaked, Destroy
    <2>1. fd # m_sockfd[o] /\ table[fd] \in OpenSocket
      BY <1>1, CloseWorks DEF OpenSocket
    <2>2. PICK p \in live : m_sockfd[p] = fd
      BY <2>1 DEF IInv, NoneLeaked
    <2> QED
      BY <1>4, <2>1, <2>2 DEF Destroy
  <1> QED
    BY <1>2, <1>3, <1>6, <1>7, <1>8 DEF IInv

\* bind, listen, connect and what other code does only change what a descriptor
\* stands for.
LEMMA TurnsStep ==
  ASSUME IInv, NEW o \in Objects, NEW before, NEW after \in OpenSocket,
         before \subseteq OpenSocket, Turns(o, before, after)
  PROVE  IInv'
  <1>1. TypeOK' /\ OneOwner'
    BY DEF IInv, TypeOK, OneOwner, Turns
  <1>2. CallbackFollows' /\ NoneClosedTwice'
    BY DEF IInv, CallbackFollows, NoneClosedTwice, Turns
  <1>3. NoneLeaked'
    BY DEF IInv, TypeOK, NoneLeaked, Turns
  <1> QED
    BY <1>1, <1>2, <1>3 DEF IInv

LEMMA ForeignStep ==
  ASSUME IInv, NEW fd \in Fds, ForeignOpen(fd) \/ ForeignClose(fd)
  PROVE  IInv'
  <1>1. \A p \in live : m_sockfd[p] # fd
    BY SocketAssumption DEF IInv, OneOwner, OpenSocket, ForeignOpen, ForeignClose
  <1>2. TypeOK' /\ OneOwner'
    BY <1>1 DEF IInv, TypeOK, OneOwner, ForeignOpen, ForeignClose
  <1>3. CallbackFollows' /\ NoneClosedTwice'
    BY DEF IInv, CallbackFollows, NoneClosedTwice, ForeignOpen, ForeignClose
  <1>4. NoneLeaked'
    BY DEF IInv, TypeOK, NoneLeaked, OpenSocket, ForeignOpen, ForeignClose
  <1> QED
    BY <1>2, <1>3, <1>4 DEF IInv

LEMMA RegisterStep ==
  ASSUME IInv, NEW o \in Objects, NEW handler \in Handlers, on_receive_ready(o, handler)
  PROVE  IInv'
  <1>1. TypeOK' /\ OneOwner'
    BY DEF IInv, TypeOK, OneOwner, on_receive_ready
  <1>2. CallbackFollows'
    BY DEF IInv, TypeOK, OneOwner, CallbackFollows, on_receive_ready
  <1>3. NoneLeaked' /\ NoneClosedTwice'
    BY DEF IInv, NoneLeaked, NoneClosedTwice, on_receive_ready
  <1> QED
    BY <1>1, <1>2, <1>3 DEF IInv

LEMMA InitEstablishesIInv == Init => IInv
  BY DEF Init, IInv, TypeOK, OneOwner, NoneLeaked, CallbackFollows, NoneClosedTwice, OpenSocket

LEMMA NextPreservesIInv == IInv /\ [Next]_vars => IInv'
  <1> SUFFICES ASSUME IInv, [Next]_vars PROVE IInv'
    OBVIOUS
  <1>1. ASSUME NEW o \in Objects, Construct(o) \/ Destroy(o) PROVE IInv'
    BY <1>1, ConstructStep, DestroyStep
  <1>2. ASSUME NEW o \in Objects, bind(o) \/ listen(o) \/ connect(o) PROVE IInv'
    BY <1>2, TurnsStep DEF bind, listen, connect, OpenSocket
  <1>3. ASSUME NEW o \in Objects, NEW fd \in Fds, Create(o, fd) PROVE IInv'
    BY <1>3, ObtainStep DEF Create, OpenSocket
  <1>4. ASSUME NEW o \in Objects, NEW from \in Objects,
               MoveConstruct(o, from) \/ MoveAssign(o, from)
        PROVE  IInv'
    BY <1>4, MoveConstructStep, MoveAssignStep, MoveAssignFailsStep DEF MoveAssign
  <1>5. ASSUME NEW o \in Objects, NEW server \in Objects, NEW fd \in Fds,
               accept(server, o, fd)
        PROVE  IInv'
    BY <1>5, ObtainStep DEF accept, OpenSocket
  <1>6. ASSUME NEW o \in Objects, NEW handler \in Handlers, on_receive_ready(o, handler)
        PROVE  IInv'
    BY <1>6, RegisterStep
  <1>7. ASSUME NEW fd \in Fds, ForeignOpen(fd) \/ ForeignClose(fd) PROVE IInv'
    BY <1>7, ForeignStep
  <1>8. CASE UNCHANGED vars
    BY <1>8 DEF vars, IInv, TypeOK, OneOwner, NoneLeaked, CallbackFollows, NoneClosedTwice
  <1> QED
    BY <1>1, <1>2, <1>3, <1>4, <1>5, <1>6, <1>7, <1>8 DEF Next

\* The invariant, from which the properties follow.
THEOREM SocketInvariant == Spec => []IInv
  BY InitEstablishesIInv, NextPreservesIInv, PTL DEF Spec

\* Objects and open sockets match one to one, and no destructor closes what was closed
\* before (move constructor and assignment, close).
THEOREM OwnersAreUnique == Spec => []DescriptorsOwned
  <1>1. IInv => DescriptorsOwned
    BY DEF IInv, DescriptorsOwned
  <1> QED
    BY <1>1, SocketInvariant, PTL

\* The callback of a socket is where its descriptor is (on_receive_ready, moves).
THEOREM CallbackStaysWithSocket == Spec => []CallbackFollows
  <1>1. IInv => CallbackFollows
    BY DEF IInv
  <1> QED
    BY <1>1, SocketInvariant, PTL

\* A step that closes a foreign file, or changes it, is one of its owner.
LEMMA ForeignStepOnly ==
  ASSUME IInv, Next, NEW fd \in Fds, table[fd] = "foreign", table'[fd] # "foreign"
  PROVE  ForeignClose(fd)
  <1>1. ASSUME NEW o \in live PROVE m_sockfd[o] # fd
    BY <1>1, SocketAssumption DEF IInv, OneOwner, OpenSocket
  <1>2. ASSUME NEW o \in live PROVE Closed(o)[fd] = "foreign"
    BY <1>1, <1>2, CloseWorks
  <1>3. ASSUME NEW g \in Fds, ForeignClose(g) PROVE g = fd
    BY <1>3 DEF ForeignClose
  <1>4. ASSUME NEW g \in Fds, ForeignOpen(g) PROVE FALSE
    BY <1>4 DEF IInv, TypeOK, ForeignOpen
  <1>5. ASSUME NEW o \in Objects, bind(o) \/ listen(o) \/ connect(o) PROVE FALSE
    BY <1>1, <1>5 DEF IInv, TypeOK, bind, listen, connect, Turns
  <1>6. ASSUME NEW o \in Objects, NEW g \in Fds, NEW what, Obtained(o, g, what)
        PROVE  FALSE
    BY <1>6 DEF IInv, TypeOK, Obtained
  <1>7. ASSUME NEW o \in Objects, NEW from \in Objects,
               Construct(o) \/ Destroy(o) \/ MoveConstruct(o, from) \/ MoveAssign(o, from)
        PROVE  FALSE
    BY <1>2, <1>7 DEF Construct, Destroy, MoveConstruct, MoveAssign
  <1>8. ASSUME NEW o \in Objects, NEW handler \in Handlers, on_receive_ready(o, handler)
        PROVE  FALSE
    BY <1>8 DEF on_receive_ready
  <1> QED
    BY <1>3, <1>4, <1>5, <1>6, <1>7, <1>8 DEF Next, Create, accept

\* No step of a Socket closes or changes a file of other code.
THEOREM OthersAreSafe == Spec => ForeignUntouched
  <1>1. IInv /\ [Next]_vars =>
           [\A fd \in Fds : table[fd] = "foreign" /\ table'[fd] # "foreign"
                => ForeignClose(fd)]_vars
    BY ForeignStepOnly DEF vars
  <1> QED
    BY <1>1, SocketInvariant, PTL DEF Spec, ForeignUntouched
=============================================================================
