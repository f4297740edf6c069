--------------------------- MODULE McpServerProofs ---------------------------
(***************************************************************************)
(* Proofs of what an McpServer promises: its client knows what the owner   *)
(* may change, can catch up with each change, gets the kind of answer that *)
(* it asked for, and finds resource templates by their URIs.               *)
(***************************************************************************)
EXTENDS UriTemplateProps, SequenceTheorems, FiniteSetTheorems, TLAPS

\* Capabilities are frozen while connected, and a client was told all of them.
Advertised ==
    /\ \A h \in owned : Needs(h) \subseteq capabilities
    /\ initialized => connected /\ told = capabilities

\* A call that runs a tool was found to ask for what the tool supports.
CallIsChecked ==
    call.phase = "validating" =>
        /\ call.tool \in Handle /\ call.task \in BOOLEAN
        /\ call.polls <=> TaskSupport[call.tool] = "optional" /\ ~call.task
        /\ TaskSupport[call.tool] = "required" => call.task

\* A list that the client has is of one group.
KnownIsOfGroup == \A g \in Group : \A e \in known[g] : GroupOf(e[1]) = g

RegistryInv ==
    TypeOK /\ Advertised /\ CallIsChecked /\ AnswerFits /\ KnownIsOfGroup /\ ClientCanCatchUp

LEMMA RegistryStarts == Init => RegistryInv
<1> SUFFICES ASSUME Init PROVE RegistryInv
  OBVIOUS
<1>1. TypeOK
  BY McpServerAssumption DEF Init, TypeOK, NoCall
<1>2. Advertised /\ CallIsChecked /\ AnswerFits /\ KnownIsOfGroup /\ ClientCanCatchUp
  BY DEF Init, Advertised, CallIsChecked, AnswerFits, KnownIsOfGroup, ClientCanCatchUp, NoCall
<1> QED BY <1>1, <1>2 DEF RegistryInv

LEMMA GroupIsGroup == \A h \in Handle : GroupOf(h) \in Group
BY DEF GroupOf, Group

-----------------------------------------------------------------------------
(* The owner *)

\* What changes for handles of one group is announced to a client, and the lists
\* of other groups stay as they are.
LEMMA AnnouncedChange ==
  ASSUME RegistryInv, NEW h \in Handle, Announce(GroupOf(h)), UNCHANGED <<connected, client>>,
         owned' \subseteq owned \cup {h},
         \A i \in Handle : GroupOf(i) # GroupOf(h) =>
             names'[i] = names[i] /\ (i \in enabled' <=> i \in enabled)
  PROVE  ClientCanCatchUp'
<1> SUFFICES ASSUME initialized, NEW g \in told \cap Group
             PROVE  \/ g \in pending' \cup sent' \cup stale
                    \/ \A e \in (known[g] \ Listing(g)') \cup (Listing(g)' \ known[g]) :
                           e[1] \notin owned'
  BY DEF ClientCanCatchUp, client
<1>1. connected
  BY DEF RegistryInv, Advertised
<1>2. pending \subseteq pending' /\ sent \subseteq sent'
  BY DEF Announce
<1>3. CASE g = GroupOf(h)
  BY <1>1, <1>3 DEF Announce
<1>4. CASE g # GroupOf(h)
  <2>1. Listing(g)' = Listing(g)
    BY <1>4 DEF Listing, Served
  <2>2. \A e \in known[g] \cup Listing(g) : GroupOf(e[1]) = g
    BY DEF RegistryInv, KnownIsOfGroup, Listing
  <2>3. \/ g \in pending \cup sent \cup stale
        \/ \A e \in (known[g] \ Listing(g)) \cup (Listing(g) \ known[g]) : e[1] \notin owned
    BY DEF RegistryInv, ClientCanCatchUp
  <2> QED BY <1>2, <1>4, <2>1, <2>2, <2>3
<1> QED BY <1>3, <1>4

LEMMA AnnounceTypes ==
  ASSUME TypeOK, NEW g \in Group, Announce(g)
  PROVE  pending' \subseteq Debounced /\ sent' \subseteq Group
BY DEF TypeOK, Announce

\* A step of the owner, but for what it does to the lists.
OwnerTypes ==
    TypeOK' /\ Advertised' /\ KnownIsOfGroup'

LEMMA RegistersTypes ==
  ASSUME RegistryInv, NEW h \in Handle, NEW n \in Name, Registers(h, n)
  PROVE  OwnerTypes /\ ClientCanCatchUp'
<1> USE McpServerAssumption
<1> DEFINE k == KindOf[h]
<1>1. TypeOK /\ Advertised /\ KnownIsOfGroup /\ k \in Kind /\ GroupOf(h) \in Group
  BY GroupIsGroup DEF RegistryInv
<1>2. /\ names' \in [Handle -> SUBSET Name]
      /\ names'[h] = {n}
      /\ \A i \in Handle :
            i # h => names'[i] = IF KindOf[i] = k THEN names[i] \ {n} ELSE names[i]
  <2>1. names' = [[i \in Handle |-> IF KindOf[i] = k THEN names[i] \ {n} ELSE names[i]]
                      EXCEPT ![h] = {n}]
    BY DEF Registers, Without
  <2>2. names \in [Handle -> SUBSET Name]
    BY <1>1 DEF TypeOK
  <2> QED BY <2>1, <2>2
<1>3. \A g, i \in Handle : KindOf[g] = KindOf[i] /\ g # i => names'[g] \cap names'[i] = {}
  <2>1. \A g, i \in Handle : KindOf[g] = KindOf[i] /\ g # i => names[g] \cap names[i] = {}
    BY <1>1 DEF TypeOK
  <2> QED BY <1>2, <2>1
<1>4. home[h] = NoName /\ home'[h] = n /\ home' \in [Handle -> Name \cup {NoName}]
      /\ \A i \in Handle : i # h => home'[i] = home[i]
  BY <1>1 DEF Registers, TypeOK
<1>5. h \notin owned /\ \A i \in owned : home'[i] # NoName
  BY <1>1, <1>4 DEF TypeOK
<1>6. Needs(h) \subseteq Group \cup {"completions"}
  BY <1>1 DEF Needs
<1>7. CASE CanRegister(Needs(h))
  <2>1. capabilities' = capabilities \cup Needs(h) /\ owned' = owned \cup {h}
        /\ Announce(GroupOf(h)) /\ (connected => capabilities' = capabilities)
    BY <1>7 DEF Registers, CanRegister
  <2>2. pending' \subseteq Debounced /\ sent' \subseteq Group
    BY <1>1, <2>1, AnnounceTypes
  <2>3. enabled' \subseteq Handle /\ UNCHANGED <<plain, connected, client, call>>
    BY <1>1 DEF Registers, TypeOK
  <2>4. TypeOK'
    BY <1>1, <1>2, <1>3, <1>4, <1>5, <1>6, <2>1, <2>2, <2>3 DEF TypeOK, client
  <2>5. Advertised' /\ KnownIsOfGroup'
    BY <1>1, <2>1, <2>3 DEF Advertised, KnownIsOfGroup, Needs, GroupOf, client
  <2>6. ClientCanCatchUp'
    <3>1. \A i \in Handle : GroupOf(i) # GroupOf(h) =>
             names'[i] = names[i] /\ (i \in enabled' <=> i \in enabled)
      BY <1>2 DEF Registers, GroupOf
    <3> QED BY <2>1, <2>3, <3>1, AnnouncedChange
  <2> QED BY <2>4, <2>5, <2>6 DEF OwnerTypes
<1>8. CASE ~CanRegister(Needs(h))
  <2>1. UNCHANGED <<capabilities, owned, pending, sent, plain, connected, client, call>>
    BY <1>8 DEF Registers
  <2>2. TypeOK'
    BY <1>1, <1>2, <1>3, <1>4, <1>5, <2>1 DEF Registers, TypeOK, client
  <2>3. Advertised' /\ KnownIsOfGroup'
    BY <1>1, <2>1 DEF Advertised, KnownIsOfGroup, Needs, GroupOf, client
  <2>4. \A i \in owned : names'[i] = names[i] /\ (i \in enabled' <=> i \in enabled)
    <3> SUFFICES ASSUME NEW i \in owned PROVE names'[i] = names[i]
      BY <1>5 DEF Registers
    <3>1. i \in Handle /\ i # h
      BY <1>1, <1>5 DEF TypeOK
    <3>2. CASE KindOf[i] # k
      BY <1>2, <3>1, <3>2
    <3>3. CASE KindOf[i] = k
      <4>1. k # "tool"
        BY <1>1, <1>8, <3>1, <3>3 DEF Advertised, Needs, GroupOf, CanRegister
      <4>2. ~Taken(k, n)
        BY <3>1, <4>1 DEF Registers, MayTake
      <4>3. n \notin names[i]
        BY <3>1, <3>3, <4>2 DEF Taken
      <4> QED BY <1>2, <3>1, <4>3
    <3> QED BY <3>2, <3>3
  <2>5. \A g \in Group, e \in Handle \X Name :
           e[1] \in owned => (e \in Listing(g)' <=> e \in Listing(g))
    BY <2>4 DEF Listing, Served, GroupOf
  <2>6. ClientCanCatchUp'
    <3> SUFFICES ASSUME initialized, NEW g \in told \cap Group
                 PROVE  \/ g \in pending \cup sent \cup stale
                        \/ \A e \in (known[g] \ Listing(g)') \cup (Listing(g)' \ known[g]) :
                               e[1] \notin owned
      BY <2>1 DEF ClientCanCatchUp, client
    <3>1. known[g] \subseteq Handle \X Name /\ Listing(g)' \subseteq Handle \X Name
      BY <1>1 DEF TypeOK, Listing
    <3> QED BY <2>5, <3>1 DEF RegistryInv, ClientCanCatchUp
  <2> QED BY <2>2, <2>3, <2>6 DEF OwnerTypes
<1> QED BY <1>7, <1>8

\* The other calls of the owner are made with a handle it holds, and announced.
LEMMA OwnerKeeps ==
  ASSUME RegistryInv, NEW h \in Handle,
         (\E n \in Name : Renames(h, n)) \/ Removes(h) \/ Switches(h) \/ Replaces(h)
  PROVE  OwnerTypes /\ ClientCanCatchUp'
<1> USE McpServerAssumption
<1> DEFINE k == KindOf[h]
<1>1. TypeOK /\ Advertised /\ KnownIsOfGroup /\ k \in Kind /\ GroupOf(h) \in Group
  BY GroupIsGroup DEF RegistryInv
<1>2. /\ h \in owned /\ Announce(GroupOf(h))
      /\ UNCHANGED <<home, owned, capabilities, connected, client, call>>
  BY DEF Renames, Removes, Switches, Replaces
<1>3. /\ names' \in [Handle -> SUBSET Name]
      /\ \A i \in Handle : KindOf[i] # k => names'[i] = names[i]
      /\ \A g, i \in Handle : KindOf[g] = KindOf[i] /\ g # i => names'[g] \cap names'[i] = {}
  <2>1. CASE \E n \in Name : Renames(h, n)
    <3> PICK n \in Name : Renames(h, n)
      BY <2>1
    <3>1. names' = [i \in Handle |->
                       IF i = h THEN (names[h] \ {home[h]}) \cup {n}
                       ELSE IF KindOf[i] = k THEN names[i] \ {home[h], n} ELSE names[i]]
      BY DEF Renames
    <3>2. \A i \in Handle : names'[i] = IF i = h THEN (names[h] \ {home[h]}) \cup {n}
                       ELSE IF KindOf[i] = k THEN names[i] \ {home[h], n} ELSE names[i]
      BY <3>1
    <3>3. names' \in [Handle -> SUBSET Name]
      BY <1>1, <3>1 DEF TypeOK
    <3>4. \A g, i \in Handle : KindOf[g] = KindOf[i] /\ g # i => names[g] \cap names[i] = {}
      BY <1>1 DEF TypeOK
    <3>5. \A g, i \in Handle : KindOf[g] = KindOf[i] /\ g # i => names'[g] \cap names'[i] = {}
      BY <3>2, <3>4
    <3> QED BY <3>2, <3>3, <3>5
  <2>2. CASE Removes(h)
    <3>1. /\ names' \in [Handle -> SUBSET Name]
          /\ \A i \in Handle :
                names'[i] = IF KindOf[i] = k THEN names[i] \ {home[h]} ELSE names[i]
      <4>1. names' = [i \in Handle |->
                         IF KindOf[i] = k THEN names[i] \ {home[h]} ELSE names[i]]
        BY <2>2 DEF Removes, Without
      <4>2. names \in [Handle -> SUBSET Name]
        BY <1>1 DEF TypeOK
      <4> QED BY <4>1, <4>2
    <3>2. \A g, i \in Handle : KindOf[g] = KindOf[i] /\ g # i => names[g] \cap names[i] = {}
      BY <1>1 DEF TypeOK
    <3> QED BY <3>1, <3>2
  <2>3. CASE Switches(h) \/ Replaces(h)
    BY <1>1, <2>3 DEF Switches, Replaces, TypeOK
  <2> QED BY <2>1, <2>2, <2>3
<1>4. /\ enabled' \subseteq Handle /\ plain' \subseteq owned
      /\ \A i \in Handle : i # h => (i \in enabled' <=> i \in enabled)
  BY <1>1, <1>2 DEF Renames, Removes, Switches, Replaces, TypeOK
<1>5. pending' \subseteq Debounced /\ sent' \subseteq Group
  BY <1>1, <1>2, AnnounceTypes
<1>6. TypeOK'
  BY <1>1, <1>2, <1>3, <1>4, <1>5 DEF TypeOK, client
<1>7. Advertised' /\ KnownIsOfGroup'
  BY <1>1, <1>2 DEF Advertised, KnownIsOfGroup, Needs, GroupOf, client
<1>8. \A i \in Handle : GroupOf(i) # GroupOf(h) =>
         names'[i] = names[i] /\ (i \in enabled' <=> i \in enabled)
  BY <1>3, <1>4 DEF GroupOf
<1>9. ClientCanCatchUp'
  BY <1>2, <1>8, AnnouncedChange
<1> QED BY <1>6, <1>7, <1>9 DEF OwnerTypes

-----------------------------------------------------------------------------
(* The client *)

LEMMA ClientKeeps ==
  ASSUME RegistryInv, Connects \/ Initializes \/ Closes \/ \E g \in Group : NoticeStep(g)
  PROVE  OwnerTypes /\ CallIsChecked' /\ AnswerFits' /\ ClientCanCatchUp'
<1> USE McpServerAssumption
<1>1. TypeOK /\ Advertised /\ KnownIsOfGroup /\ CallIsChecked /\ AnswerFits /\ ClientCanCatchUp
  BY DEF RegistryInv
<1>2. CASE Connects
  <2>1. ~initialized /\ UNCHANGED <<registry, capabilities, pending, sent, client, call>>
    BY <1>1, <1>2 DEF Connects, Advertised
  <2>2. TypeOK'
    BY <1>1, <1>2 DEF Connects, TypeOK, registry, client
  <2>3. Advertised' /\ KnownIsOfGroup' /\ CallIsChecked' /\ AnswerFits' /\ ClientCanCatchUp'
    BY <1>1, <2>1 DEF Advertised, KnownIsOfGroup, CallIsChecked, AnswerFits, ClientCanCatchUp,
                      registry, client, Needs, GroupOf
  <2> QED BY <2>2, <2>3 DEF OwnerTypes
<1>3. CASE Initializes
  <2>1. TypeOK'
    BY <1>1, <1>3 DEF Initializes, TypeOK, registry, server
  <2>2. Advertised' /\ KnownIsOfGroup'
    BY <1>1, <1>3 DEF Initializes, Advertised, KnownIsOfGroup, registry, server, Needs, GroupOf
  <2>3. CallIsChecked' /\ AnswerFits' /\ ClientCanCatchUp'
    BY <1>1, <1>3 DEF Initializes, CallIsChecked, AnswerFits, ClientCanCatchUp
  <2> QED BY <2>1, <2>2, <2>3 DEF OwnerTypes
<1>4. CASE Closes
  <2>1. TypeOK'
    BY <1>1, <1>4 DEF Closes, TypeOK, registry, NoCall
  <2>2. Advertised' /\ KnownIsOfGroup'
    BY <1>1, <1>4 DEF Closes, Advertised, KnownIsOfGroup, registry, Needs, GroupOf
  <2>3. CallIsChecked' /\ AnswerFits' /\ ClientCanCatchUp'
    BY <1>4 DEF Closes, CallIsChecked, AnswerFits, ClientCanCatchUp, NoCall
  <2> QED BY <2>1, <2>2, <2>3 DEF OwnerTypes
<1>5. CASE \E g \in Group : SendsDebounced(g)
  <2> PICK g \in Group : SendsDebounced(g)
    BY <1>5
  <2>1. /\ pending' = pending \ {g} /\ sent' = sent \cup {g}
        /\ UNCHANGED <<registry, capabilities, connected, client, call>>
    BY DEF SendsDebounced
  <2>2. TypeOK'
    BY <1>1, <2>1 DEF TypeOK, registry, client
  <2>3. Advertised' /\ KnownIsOfGroup' /\ CallIsChecked' /\ AnswerFits'
    BY <1>1, <2>1 DEF Advertised, KnownIsOfGroup, CallIsChecked, AnswerFits, registry, client,
                      Needs, GroupOf
  <2>4. \A j \in Group : Listing(j)' = Listing(j)
    BY <2>1 DEF Listing, Served, GroupOf, registry
  <2>5. ClientCanCatchUp'
    BY <1>1, <2>1, <2>4 DEF ClientCanCatchUp, registry, client
  <2> QED BY <2>2, <2>3, <2>5 DEF OwnerTypes
<1>6. CASE \E g \in Group : Lists(g)
  <2> PICK g \in Group : Lists(g)
    BY <1>6
  <2>1. /\ stale' = stale \ {g} /\ sent' = sent \ {g}
        /\ known' = [known EXCEPT ![g] = Listing(g)]
        /\ UNCHANGED <<registry, server, told, initialized, call>>
    BY DEF Lists
  <2>2. Listing(g) \subseteq Handle \X Name /\ \A e \in Listing(g) : GroupOf(e[1]) = g
    BY DEF Listing
  <2>3. /\ known' \in [Group -> SUBSET (Handle \X Name)] /\ known'[g] = Listing(g)
        /\ \A j \in Group : j # g => known'[j] = known[j]
    BY <1>1, <2>1, <2>2 DEF TypeOK
  <2>4. TypeOK'
    BY <1>1, <2>1, <2>3 DEF TypeOK, registry, server
  <2>5. Advertised' /\ CallIsChecked' /\ AnswerFits'
    BY <1>1, <2>1 DEF Advertised, CallIsChecked, AnswerFits, registry, server, Needs, GroupOf
  <2>6. KnownIsOfGroup'
    BY <1>1, <2>2, <2>3 DEF KnownIsOfGroup, GroupOf
  <2>7. \A j \in Group : Listing(j)' = Listing(j)
    BY <2>1 DEF Listing, Served, GroupOf, registry
  <2>8. ClientCanCatchUp'
    BY <1>1, <2>1, <2>3, <2>7 DEF ClientCanCatchUp, registry, server
  <2> QED BY <2>4, <2>5, <2>6, <2>8 DEF OwnerTypes
<1> QED BY <1>2, <1>3, <1>4, <1>5, <1>6 DEF NoticeStep

-----------------------------------------------------------------------------
(* Calls *)

\* A request that is answered at once with anything but a task.
LEMMA AnsweredFits ==
  ASSUME NEW task \in BOOLEAN,
         NEW outcome \in {"tool error", "protocol error", "content", "task"},
         call' = Answered(task, outcome), outcome = "task" => task
  PROVE  call'.phase = "answered" /\ CallIsChecked' /\ AnswerFits'
BY DEF Answered, Answer, CallIsChecked, AnswerFits

LEMMA CallKeeps ==
  ASSUME RegistryInv, CallStep
  PROVE  CallIsChecked' /\ AnswerFits' /\ call'.phase \in {"none", "validating", "answered"}
         /\ UNCHANGED <<registry, server, sent, client>>
<1> USE McpServerAssumption
<1>1. TypeOK /\ CallIsChecked
  BY DEF RegistryInv
<1>2. CASE \E n \in Name, task \in BOOLEAN : CallsTool(n, task)
  <2> PICK n \in Name, task \in BOOLEAN : CallsTool(n, task)
    BY <1>2
  <2>1. CASE Found("tool", n) = {}
    BY <2>1, AnsweredFits DEF CallsTool
  <2>2. CASE Found("tool", n) # {}
    <3> PICK h \in Found("tool", n) :
            LET support == TaskSupport[h]
                refused == support # "forbidden" /\ (h \in plain \/ (support = "required" /\ ~task))
            IN  IF refused THEN call' = Answered(task, "tool error")
                ELSE call' = [phase |-> "validating", tool |-> h, task |-> task,
                              polls |-> support = "optional" /\ ~task]
      BY <2>2 DEF CallsTool
    <3>1. h \in Handle
      BY DEF Found
    <3>2. CASE call' = Answered(task, "tool error")
      BY <3>2, AnsweredFits DEF CallsTool
    <3>3. CASE /\ call' = [phase |-> "validating", tool |-> h, task |-> task,
                           polls |-> TaskSupport[h] = "optional" /\ ~task]
               /\ TaskSupport[h] = "required" => task
      BY <3>1, <3>3 DEF CallIsChecked, AnswerFits, CallsTool
    <3> QED BY <3>2, <3>3
  <2> QED BY <2>1, <2>2
<1>3. CASE RejectsInput
  BY <1>1, <1>3, AnsweredFits DEF RejectsInput, CallIsChecked
<1>4. CASE RunsTool
  <2>1. call.phase = "validating" /\ call.tool \in Handle /\ call.task \in BOOLEAN
    BY <1>1, <1>4 DEF RunsTool, CallIsChecked
  <2> PICK outcome \in {"tool error", "protocol error",
                         IF IsTaskHandler(call.tool) THEN "task" ELSE "content"} :
          call' = Answered(call.task,
                    IF ~call.polls THEN outcome
                    ELSE CASE outcome = "task" -> "content"
                           [] outcome = "content" -> "tool error"
                           [] OTHER -> outcome)
    BY <1>4 DEF RunsTool
  <2>2. ~call.polls /\ outcome = "task" => call.task
    BY <1>1, <2>1 DEF CallIsChecked, IsTaskHandler, Support
  <2> QED BY <1>4, <2>1, <2>2, AnsweredFits DEF RunsTool
<1>5. CASE \E k \in Kind, n \in Name : Uses(k, n)
  BY <1>5, AnsweredFits DEF Uses, Outcomes
<1> QED BY <1>2, <1>3, <1>4, <1>5 DEF CallStep

-----------------------------------------------------------------------------
LEMMA RegistryKept == RegistryInv /\ [Next]_vars => RegistryInv'
<1> SUFFICES ASSUME RegistryInv, [Next]_vars PROVE RegistryInv'
  OBVIOUS
<1>1. CASE \E h \in Handle : OwnerStep(h)
  <2> PICK h \in Handle : OwnerStep(h)
    BY <1>1
  <2>1. OwnerTypes /\ ClientCanCatchUp'
    BY RegistersTypes, OwnerKeeps DEF OwnerStep
  <2>2. UNCHANGED call
    BY DEF OwnerStep, Registers, Renames, Removes, Switches, Replaces
  <2> QED BY <2>1, <2>2 DEF OwnerTypes, RegistryInv, CallIsChecked, AnswerFits
<1>2. CASE Connects \/ Initializes \/ Closes \/ \E g \in Group : NoticeStep(g)
  BY <1>2, ClientKeeps DEF OwnerTypes, RegistryInv
<1>3. CASE CallStep
  <2>1. CallIsChecked' /\ AnswerFits' /\ call'.phase \in {"none", "validating", "answered"}
        /\ UNCHANGED <<registry, server, sent, client>>
    BY <1>3, CallKeeps
  <2>2. TypeOK' /\ Advertised' /\ KnownIsOfGroup'
    BY <2>1 DEF RegistryInv, TypeOK, Advertised, KnownIsOfGroup, registry, server, client,
                Needs, GroupOf
  <2>3. \A g \in Group : Listing(g)' = Listing(g)
    BY <2>1 DEF Listing, Served, GroupOf, registry
  <2>4. ClientCanCatchUp'
    BY <2>1, <2>3 DEF RegistryInv, ClientCanCatchUp, registry, server, client
  <2> QED BY <2>1, <2>2, <2>4 DEF RegistryInv
<1>4. CASE UNCHANGED vars
  <2>1. TypeOK' /\ Advertised' /\ KnownIsOfGroup' /\ CallIsChecked' /\ AnswerFits'
    BY <1>4 DEF RegistryInv, TypeOK, Advertised, KnownIsOfGroup, CallIsChecked, AnswerFits,
                vars, registry, server, client, Needs, GroupOf
  <2>2. \A g \in Group : Listing(g)' = Listing(g)
    BY <1>4 DEF Listing, Served, GroupOf, vars, registry
  <2>3. ClientCanCatchUp'
    BY <1>4, <2>2 DEF RegistryInv, ClientCanCatchUp, vars, registry, server, client
  <2> QED BY <2>1, <2>3 DEF RegistryInv
<1> QED BY <1>1, <1>2, <1>3, <1>4 DEF Next

\* The invariant holds for any tools, prompts, resources and clients.
THEOREM RegistryInvariance == Spec => []RegistryInv
BY RegistryStarts, RegistryKept, PTL DEF Spec

\* A client that was told of a list is never left with an old one for good.
THEOREM ClientsCatchUp == Spec => []ClientCanCatchUp
<1>1. RegistryInv => ClientCanCatchUp
  BY DEF RegistryInv
<1> QED BY <1>1, RegistryInvariance, PTL

\* What the owner can change, the client knows the server to have.
THEOREM OwnersAdvertise == Spec => []OwnedIsAdvertised
<1>1. RegistryInv => OwnedIsAdvertised
  BY DEF RegistryInv, Advertised, OwnedIsAdvertised
<1> QED BY <1>1, RegistryInvariance, PTL

\* A task answers a call if and only if it asked for one and there was no error.
THEOREM AnswersFit == Spec => []AnswerFits
<1>1. RegistryInv => AnswerFits
  BY DEF RegistryInv
<1> QED BY <1>1, RegistryInvariance, PTL

-----------------------------------------------------------------------------
(***************************************************************************)
(* URI templates.  A group captures one text only: the literals and        *)
(* operators around it are fixed, and what expand() escapes has no         *)
(* reserved character in it, by which two groups or the texts of a list    *)
(* are separated.  So there is one capture to choose from.                 *)
(***************************************************************************)


\* What flattening a sequence of n sequences goes through.
FlattenSteps(s, f) ==
    f = [i \in 1..Len(s) |-> IF i = 1 THEN s[i] ELSE f[i - 1] \o s[i]]

LEMMA FlattenUnfolds ==
    ASSUME NEW s, NEW g, FlattenSteps(s, g), Len(s) # 0
    PROVE  \E f : FlattenSteps(s, f) /\ FlattenSeq(s) = f[Len(s)]
<1> DEFINE E(f) == [i \in 1..Len(s) |-> IF i = 1 THEN s[i] ELSE f[i - 1] \o s[i]]
           c == CHOOSE f : f = E(f)
<1>1. c = E(c)
  BY Zenon DEF FlattenSteps
<1>2. FlattenSeq(s) = c[Len(s)]
  BY DEF FlattenSeq
<1> HIDE DEF c
<1> QED BY <1>1, <1>2, Zenon DEF FlattenSteps

\* Flattening one to four sequences.
LEMMA FlattenOne == ASSUME NEW s, Len(s) = 1 PROVE FlattenSeq(s) = s[1]
<1> DEFINE g == [i \in 1..1 |-> s[1]]
<1>1. Len(s) # 0
  OBVIOUS
<1>2. FlattenSteps(s, g)
  BY DEF FlattenSteps
<1> HIDE DEF g
<1>3. PICK f : FlattenSteps(s, f) /\ FlattenSeq(s) = f[Len(s)]
  BY <1>1, <1>2, FlattenUnfolds, Zenon
<1>4. \A i \in 1..1 : f[i] = IF i = 1 THEN s[i] ELSE f[i - 1] \o s[i]
  BY <1>3 DEF FlattenSteps
<1> QED BY <1>3, <1>4

LEMMA FlattenTwo == ASSUME NEW s, Len(s) = 2 PROVE FlattenSeq(s) = s[1] \o s[2]
<1> DEFINE g == [i \in 1..2 |-> IF i = 1 THEN s[1] ELSE s[1] \o s[2]]
<1>1. Len(s) # 0
  OBVIOUS
<1>2. FlattenSteps(s, g)
  BY DEF FlattenSteps
<1> HIDE DEF g
<1>3. PICK f : FlattenSteps(s, f) /\ FlattenSeq(s) = f[Len(s)]
  BY <1>1, <1>2, FlattenUnfolds, Zenon
<1>4. \A i \in 1..2 : f[i] = IF i = 1 THEN s[i] ELSE f[i - 1] \o s[i]
  BY <1>3 DEF FlattenSteps
<1>5. f[1] = s[1]
  BY <1>4
<1>6. f[2] = f[1] \o s[2]
  BY <1>4
<1> QED BY <1>3, <1>5, <1>6

LEMMA FlattenThree == ASSUME NEW s, Len(s) = 3 PROVE FlattenSeq(s) = (s[1] \o s[2]) \o s[3]
<1> DEFINE g == [i \in 1..3 |-> IF i = 1 THEN s[1] ELSE IF i = 2 THEN s[1] \o s[2]
                                ELSE (s[1] \o s[2]) \o s[3]]
<1>1. Len(s) # 0
  OBVIOUS
<1>2. FlattenSteps(s, g)
  BY DEF FlattenSteps
<1> HIDE DEF g
<1>3. PICK f : FlattenSteps(s, f) /\ FlattenSeq(s) = f[Len(s)]
  BY <1>1, <1>2, FlattenUnfolds, Zenon
<1>4. \A i \in 1..3 : f[i] = IF i = 1 THEN s[i] ELSE f[i - 1] \o s[i]
  BY <1>3 DEF FlattenSteps
<1>5. f[1] = s[1]
  BY <1>4
<1>6. f[2] = f[1] \o s[2]
  BY <1>4
<1>7. f[3] = f[2] \o s[3]
  BY <1>4
<1> QED BY <1>3, <1>5, <1>6, <1>7

LEMMA FlattenFour == ASSUME NEW s, Len(s) = 4 PROVE FlattenSeq(s) = ((s[1] \o s[2]) \o s[3]) \o s[4]
<1> DEFINE g == [i \in 1..4 |-> IF i = 1 THEN s[1] ELSE IF i = 2 THEN s[1] \o s[2]
                                ELSE IF i = 3 THEN (s[1] \o s[2]) \o s[3]
                                ELSE ((s[1] \o s[2]) \o s[3]) \o s[4]]
<1>1. Len(s) # 0
  OBVIOUS
<1>2. FlattenSteps(s, g)
  BY DEF FlattenSteps
<1> HIDE DEF g
<1>3. PICK f : FlattenSteps(s, f) /\ FlattenSeq(s) = f[Len(s)]
  BY <1>1, <1>2, FlattenUnfolds, Zenon
<1>4. \A i \in 1..4 : f[i] = IF i = 1 THEN s[i] ELSE f[i - 1] \o s[i]
  BY <1>3 DEF FlattenSteps
<1>5. f[1] = s[1]
  BY <1>4
<1>6. f[2] = f[1] \o s[2]
  BY <1>4
<1>7. f[3] = f[2] \o s[3]
  BY <1>4
<1>8. f[4] = f[3] \o s[4]
  BY <1>4
<1> QED BY <1>3, <1>5, <1>6, <1>7, <1>8

\* strings.join(separator) of one and of two texts.
LEMMA JoinOne == ASSUME NEW s, NEW separator, Len(s) = 1, DOMAIN s = 1..1
                 PROVE  Join(s, separator) = s[1]
<1> DEFINE F(i) == IF i = 1 THEN s[i] ELSE <<separator>> \o s[i]
<1>1. PICK t : t = [i \in DOMAIN s |-> F(i)]
  OBVIOUS
<1>2. Len(t) = 1 /\ t[1] = s[1]
  BY <1>1
<1>3. FlattenSeq(t) = t[1]
  BY <1>2, FlattenOne, Zenon
<1> QED BY <1>1, <1>2, <1>3 DEF Join

LEMMA JoinTwo == ASSUME NEW s, NEW separator, Len(s) = 2, DOMAIN s = 1..2
                 PROVE  Join(s, separator) = s[1] \o (<<separator>> \o s[2])
<1> DEFINE F(i) == IF i = 1 THEN s[i] ELSE <<separator>> \o s[i]
<1>1. PICK t : t = [i \in DOMAIN s |-> F(i)]
  OBVIOUS
<1>2. Len(t) = 2 /\ t[1] = s[1] /\ t[2] = <<separator>> \o s[2]
  BY <1>1
<1>3. FlattenSeq(t) = t[1] \o t[2]
  BY <1>2, FlattenTwo, Zenon
<1> QED BY <1>1, <1>2, <1>3 DEF Join

\* Texts

\* s is the text ab followed by c, or the texts a, b and c one after the other.
Composed2(C, s, ab, c) ==
    /\ s \in Seq(C) /\ Len(s) = Len(ab) + Len(c)
    /\ \A i \in 1..Len(ab) + Len(c) : s[i] = IF i <= Len(ab) THEN ab[i] ELSE c[i - Len(ab)]
Composed(C, s, a, b, c) ==
    /\ s \in Seq(C)
    /\ Len(s) = Len(a) + Len(b) + Len(c)
    /\ \A i \in 1..Len(a) : s[i] = a[i]
    /\ \A i \in Len(a) + 1..Len(a) + Len(b) : s[i] = b[i - Len(a)]
    /\ \A i \in Len(a) + Len(b) + 1..Len(a) + Len(b) + Len(c) :
        s[i] = c[i - (Len(a) + Len(b))]

\* What concatenation makes is composed of its operands.
LEMMA ConcatOfTwo ==
    ASSUME NEW C, NEW a \in Seq(C), NEW b \in Seq(C)
    PROVE  Composed2(C, a \o b, a, b)
BY ConcatProperties DEF Composed2

LEMMA ConcatOf ==
    ASSUME NEW C, NEW a \in Seq(C), NEW b \in Seq(C), NEW c \in Seq(C)
    PROVE  Composed(C, (a \o b) \o c, a, b, c)
<1>1. Len(a) \in Nat /\ Len(b) \in Nat /\ Len(c) \in Nat
  OBVIOUS
<1>2. PICK ab : ab = a \o b
  OBVIOUS
<1>3. Composed2(C, ab, a, b)
  BY <1>2, ConcatOfTwo, Zenon
<1>4. ab \in Seq(C)
  BY <1>3 DEF Composed2
<1>5. PICK s : s = ab \o c
  OBVIOUS
<1>6. Composed2(C, s, ab, c)
  BY <1>4, <1>5, ConcatOfTwo, Zenon
<1>7. Composed(C, s, a, b, c)
  BY <1>1, <1>3, <1>6 DEF Composed2, Composed
<1> QED BY <1>2, <1>5, <1>7

\* Texts of one length with the same characters are one text.
LEMMA TextsEqual ==
    ASSUME NEW C, NEW s \in Seq(C), NEW t \in Seq(C), NEW n \in Nat,
           Len(s) = n, Len(t) = n, \A i \in 1..n : s[i] = t[i]
    PROVE  s = t
BY SeqEqual

\* A part of a text is among the texts in it, and those are texts.
LEMMA SubSeqIsOne ==
    ASSUME NEW s, NEW i \in 0..Len(s), NEW j \in 0..Len(s), NEW x, x = SubSeq(s, i + 1, j)
    PROVE  x \in SubSeqs(s)
BY DEF SubSeqs

LEMMA PartOf ==
    ASSUME NEW C, NEW a \in Seq(C), NEW b \in Seq(C), NEW c \in Seq(C)
    PROVE  b \in SubSeqs((a \o b) \o c)
<1>1. PICK s : s = (a \o b) \o c
  OBVIOUS
<1>2. PICK l, m, n \in Nat : l = Len(a) /\ m = Len(b) /\ n = Len(c)
  OBVIOUS
<1>3. s \in Seq(C) /\ Len(s) = l + m + n /\ \A i \in l + 1..l + m : s[i] = b[i - l]
  <2>1. Composed(C, s, a, b, c)
    BY <1>1, ConcatOf, Zenon
  <2> QED BY <2>1, <1>2 DEF Composed
<1>4. \A i \in l + 1..l + m : s[i] \in C
  BY <1>3
<1>5. /\ SubSeq(s, l + 1, l + m) \in Seq(C)
      /\ Len(SubSeq(s, l + 1, l + m)) = m
      /\ \A i \in 1..m : SubSeq(s, l + 1, l + m)[i] = s[l + i]
  <2>1. /\ SubSeq(s, l + 1, l + m) \in Seq(C)
        /\ Len(SubSeq(s, l + 1, l + m))
              = IF l + 1 <= l + m THEN (l + m) - (l + 1) + 1 ELSE 0
        /\ \A i \in 1..(l + m) - (l + 1) + 1 : SubSeq(s, l + 1, l + m)[i] = s[(l + 1) + i - 1]
    BY <1>4, <1>2, SubSeqProperties
  <2> QED BY <2>1, <1>2
<1>6. SubSeq(s, l + 1, l + m) = b
  <2>1. PICK t : t = SubSeq(s, l + 1, l + m)
    OBVIOUS
  <2>2. t \in Seq(C) /\ Len(t) = m /\ \A i \in 1..m : t[i] = b[i]
    <3>1. \A i \in 1..m : t[i] = s[l + i] /\ l + i \in l + 1..l + m /\ (l + i) - l = i
      BY <2>1, <1>5
    <3> QED BY <3>1, <2>1, <1>5, <1>3
  <2>3. t = b
    BY <2>2, <1>2, TextsEqual
  <2> QED BY <2>1, <2>3
<1>7. l \in 0..Len(s) /\ l + m \in 0..Len(s)
  BY <1>2, <1>3
<1>8. b \in SubSeqs(s)
  BY <1>6, <1>7, SubSeqIsOne, Zenon
<1> QED BY <1>1, <1>8

LEMMA PartsAreTexts == ASSUME NEW C, NEW s \in Seq(C) PROVE SubSeqs(s) \subseteq Seq(C)
<1> SUFFICES ASSUME NEW x \in SubSeqs(s) PROVE x \in Seq(C)
  OBVIOUS
<1>1. PICK i, j \in 0..Len(s) : x = SubSeq(s, i + 1, j)
  BY DEF SubSeqs
<1>2. i + 1 \in Int /\ j \in Int /\ \A k \in i + 1..j : s[k] \in C
  OBVIOUS
<1> QED BY <1>1, <1>2, SubSeqProperties

\* A character that a text lacks is at none of its places.
LEMMA NotInText ==
    ASSUME NEW C, NEW a \in Seq(C), NEW x, x \notin ToSet(a)
    PROVE  \A i \in 1..Len(a) : a[i] # x
<1>1. DOMAIN a = 1..Len(a)
  OBVIOUS
<1> QED BY <1>1, Zenon DEF ToSet

\* A text with one separator in it comes apart in one way.
Separates(m, C, a, b) ==
    /\ m \in Seq(C) /\ m # <<>> /\ \A i \in 2..Len(m) : m[i] # m[1]
    /\ m[1] \notin ToSet(a) /\ m[1] \notin ToSet(b)
SameText(m, a, b, c, d) == (c \o m) \o d = (a \o m) \o b

LEMMA SplitOnce ==
    ASSUME NEW C, NEW a \in Seq(C), NEW b \in Seq(C), NEW m, Separates(m, C, a, b),
           NEW c \in Seq(C), NEW d \in Seq(C), SameText(m, a, b, c, d)
    PROVE  c = a /\ d = b
<1>1. /\ m \in Seq(C) /\ m # <<>>
      /\ m[1] \notin ToSet(a) /\ m[1] \notin ToSet(b)
      /\ (c \o m) \o d = (a \o m) \o b
  BY DEF Separates, SameText
<1>2. \A i \in 2..Len(m) : m[i] # m[1]
  BY DEF Separates
<1>3. PICK s : s = (a \o m) \o b /\ s = (c \o m) \o d
  BY <1>1
<1>4. PICK k, l, n, o \in Nat : k = Len(a) /\ l = Len(m) /\ n = Len(b) /\ o = Len(c)
  BY <1>1
<1>5. /\ Len(s) = k + l + n
      /\ \A i \in 1..k : s[i] = a[i]
      /\ \A i \in k + 1..k + l : s[i] = m[i - k]
      /\ \A i \in k + l + 1..k + l + n : s[i] = b[i - (k + l)]
  <2>1. Composed(C, s, a, m, b)
    BY <1>1, <1>3, ConcatOf, Zenon
  <2> QED BY <2>1, <1>4 DEF Composed
<1>6. l # 0
  BY <1>1, <1>4
<1>7. \A i \in 1..k : a[i] # m[1]
  BY <1>1, <1>4, NotInText
<1>8. \A i \in 1..n : b[i] # m[1]
  BY <1>1, <1>4, NotInText
<1>9. o + 1 \in 1..Len(s) /\ s[o + 1] = m[1]
  <2>1. Composed(C, s, c, m, d)
    BY <1>1, <1>3, ConcatOf, Zenon
  <2>2. /\ Len(s) = Len(c) + Len(m) + Len(d)
        /\ \A i \in Len(c) + 1..Len(c) + Len(m) : s[i] = m[i - Len(c)]
    BY <2>1 DEF Composed
  <2>3. Len(d) \in Nat /\ l >= 1 /\ (o + 1) - o = 1
    BY <1>4, <1>6
  <2>4. /\ Len(s) = o + l + Len(d)
        /\ \A i \in o + 1..o + l : s[i] = m[i - o]
    BY <2>2, <1>4
  <2>5. o + 1 \in 1..Len(s) /\ o + 1 \in o + 1..o + l
    BY <2>3, <2>4, <1>4
  <2> QED BY <2>3, <2>4, <2>5
<1>10. o + 1 \notin 1..k
  BY <1>9, <1>5, <1>7
<1>11. o + 1 \notin k + l + 1..k + l + n
  <2> SUFFICES ASSUME o + 1 \in k + l + 1..k + l + n PROVE FALSE
    OBVIOUS
  <2>1. (o + 1) - (k + l) \in 1..n
    BY <1>4
  <2> QED BY <2>1, <1>5, <1>8, <1>9
<1>12. o = k
  <2> SUFFICES ASSUME o # k PROVE FALSE
    OBVIOUS
  <2>1. o + 1 \in k + 1..k + l /\ (o + 1) - k \in 2..l
    BY <1>9, <1>10, <1>11, <1>5, <1>4
  <2>2. s[o + 1] = m[(o + 1) - k]
    BY <2>1, <1>5
  <2>3. m[(o + 1) - k] # m[1]
    BY <2>1, <1>2, <1>4
  <2> QED BY <2>2, <2>3, <1>9
<1>13. \A i \in 1..o : s[i] = c[i]
  <2>1. Composed(C, s, c, m, d)
    BY <1>1, <1>3, ConcatOf, Zenon
  <2> QED BY <2>1, <1>4 DEF Composed
<1>14. c = a
  <2>1. Len(c) = k /\ Len(a) = k /\ \A i \in 1..k : c[i] = a[i]
    BY <1>13, <1>12, <1>5, <1>4
  <2> QED BY <2>1, TextsEqual
<1>15. a \o m \in Seq(C)
  BY <1>1, ConcatProperties
<1> QED BY <1>1, <1>14, <1>15, ConcatSimplifications

\* The characters of all texts; texts that are not empty; texts with nothing reserved.
Chars ==
    (UNION {ToSet(t) : t \in Sample}) \cup Reserved \cup {Escape[c] : c \in Reserved}
        \cup {"x", ":", "v", "w", "."}
Texts == Seq(Chars) \ {<<>>}
Plain == {t \in Texts : ToSet(t) \cap Reserved = {}}

LEMMA ToSetOf == ASSUME NEW C, NEW t \in Seq(C) PROVE ToSet(t) = {t[i] : i \in 1..Len(t)}
<1>1. DOMAIN t = 1..Len(t)
  OBVIOUS
<1> QED BY <1>1, Zenon DEF ToSet

\* The sample consists of texts, and what is escaped has nothing reserved in it.
LEMMA SampleIsText == ASSUME NEW t \in Sample PROVE t \in Texts
<1>1. t \in Seq(ToSet(t)) /\ t # <<>>
  BY SampleAssumption
<1>2. ToSet(t) \subseteq Chars
  BY DEF Chars
<1>3. Seq(ToSet(t)) \subseteq Seq(Chars)
  BY <1>2, SeqMonotonic
<1> QED BY <1>1, <1>3 DEF Texts

LEMMA PlainIsText == Plain \subseteq Texts /\ Texts \subseteq Seq(Chars)
BY DEF Plain, Texts

LEMMA EncodedIsPlain ==
    ASSUME NEW t \in Sample, NEW op, op \notin {"+", "#"}
    PROVE  EncodeValue(t, op) \in Plain
<1> DEFINE Code(i) == IF t[i] \in Reserved THEN Escape[t[i]] ELSE t[i]
<1>1. PICK n \in Nat : n = Len(t) /\ n # 0 /\ DOMAIN t = 1..n
  BY SampleIsText DEF Texts
<1>2. t \in Seq(Chars)
  BY SampleIsText DEF Texts
<1>3. \A i \in 1..n : Code(i) \in Chars /\ Code(i) \notin Reserved
  <2> SUFFICES ASSUME NEW i \in 1..n PROVE Code(i) \in Chars /\ Code(i) \notin Reserved
    OBVIOUS
  <2>1. t[i] \in Chars
    BY <1>1, <1>2
  <2>2. CASE t[i] \in Reserved
    <3>1. Escape[t[i]] \notin Reserved /\ Escape[t[i]] \in {Escape[c] : c \in Reserved}
      BY <2>2, EscapeAssumption
    <3>2. {Escape[c] : c \in Reserved} \subseteq Chars
      BY DEF Chars
    <3> QED BY <2>2, <3>1, <3>2
  <2>3. CASE t[i] \notin Reserved
    BY <2>1, <2>3
  <2> QED BY <2>2, <2>3
<1>4. EncodeValue(t, op) = [i \in 1..n |-> Code(i)]
  BY <1>1 DEF EncodeValue
<1>5. PICK e : e = EncodeValue(t, op)
  OBVIOUS
<1>6. e \in [1..n -> Chars] /\ \A i \in 1..n : e[i] \notin Reserved
  BY <1>3, <1>4, <1>5
<1>7. e \in Seq(Chars) /\ Len(e) = n
  BY <1>6
<1>8. ToSet(e) \cap Reserved = {}
  BY <1>6, <1>7, ToSetOf
<1> QED BY <1>5, <1>7, <1>8, <1>1 DEF Plain, Texts

\* What the groups accept.
LEMMA AcceptsPlain ==
    ASSUME NEW t \in Plain, NEW class \in {"segment", "query", "any"}
    PROVE  Accepts(class, t)
BY DEF Accepts, Plain, Texts, Reserved

LEMMA AcceptsAny == ASSUME NEW t \in Texts PROVE Accepts("any", t)
BY DEF Accepts, Texts

\* Expansion

\* The only name of an expression is given when a variable has it.
LEMMA GivenOne ==
    ASSUME NEW part, NEW variables, Len(part.names) = 1, DOMAIN part.names = 1..1,
           part.names[1] \in DOMAIN variables
    PROVE  Given(part, variables) = <<part.names[1]>>
<1> DEFINE F(i) == IF part.names[i] \in DOMAIN variables THEN <<part.names[i]>> ELSE <<>>
<1>1. PICK s : s = [i \in DOMAIN part.names |-> F(i)]
  OBVIOUS
<1>2. Len(s) = 1 /\ s[1] = <<part.names[1]>>
  BY <1>1
<1>3. FlattenSeq(s) = s[1]
  BY <1>2, FlattenOne, Zenon
<1> QED BY <1>1, <1>2, <1>3 DEF Given

\* An expression with one name, which stands for a text.
ForOne(part, op, n, variables) ==
    /\ part.operator = op /\ op # "literal"
    /\ part.names = <<n>> /\ Len(part.names) = 1 /\ DOMAIN part.names = 1..1
    /\ part.names[1] = n
    /\ n \in DOMAIN variables
    /\ Given(part, variables) = <<n>> /\ Given(part, variables) # <<>>

LEMMA IsForOne ==
    ASSUME NEW op, op # "literal", NEW n, NEW exploded, NEW variables, n \in DOMAIN variables
    PROVE  ForOne(Expression(op, <<n>>, exploded), op, n, variables)
<1>1. PICK part : part = Expression(op, <<n>>, exploded)
  OBVIOUS
<1>2. part.operator = op /\ part.names = <<n>>
  BY <1>1 DEF Expression
<1>3. Len(part.names) = 1 /\ DOMAIN part.names = 1..1 /\ part.names[1] = n
  BY <1>2
<1>4. Given(part, variables) = <<n>>
  BY <1>3, GivenOne
<1> QED BY <1>1, <1>2, <1>3, <1>4 DEF ForOne

\* The texts of a list of one and of two, encoded and joined.
LEMMA JoinedOne ==
    ASSUME NEW part, NEW variables, NEW n, NEW separator,
           Len(variables[n]) = 1, DOMAIN variables[n] = 1..1
    PROVE  Join(EncodedList(part, variables, n), separator)
             = EncodeValue(variables[n][1], part.operator)
<1>1. PICK s : s = EncodedList(part, variables, n)
  OBVIOUS
<1>2. Len(s) = 1 /\ DOMAIN s = 1..1 /\ s[1] = EncodeValue(variables[n][1], part.operator)
  BY <1>1 DEF EncodedList
<1> QED BY <1>1, <1>2, JoinOne

LEMMA JoinedTwo ==
    ASSUME NEW part, NEW variables, NEW n, NEW separator,
           Len(variables[n]) = 2, DOMAIN variables[n] = 1..2
    PROVE  Join(EncodedList(part, variables, n), separator)
             = EncodeValue(variables[n][1], part.operator)
                 \o (<<separator>> \o EncodeValue(variables[n][2], part.operator))
<1>1. PICK s : s = EncodedList(part, variables, n)
  OBVIOUS
<1>2. /\ Len(s) = 2 /\ DOMAIN s = 1..2
      /\ s[1] = EncodeValue(variables[n][1], part.operator)
      /\ s[2] = EncodeValue(variables[n][2], part.operator)
  BY <1>1 DEF EncodedList
<1> QED BY <1>1, <1>2, JoinTwo

\* What each kind of expression with one name is expanded to (112-170).
LEMMA ExpandQuery ==
    ASSUME NEW part, NEW op, op \in {"?", "&"}, NEW n, NEW variables,
           ForOne(part, op, n, variables), Len(variables[n]) = 1, DOMAIN variables[n] = 1..1
    PROVE  Expanded(part, variables) = <<op>> \o (<<n, "=">> \o EncodeValue(variables[n][1], op))
<1> DEFINE Pair(name) == <<name, "=">> \o Join(EncodedList(part, variables, name), ",")
<1>1. IsQuery(part) /\ part.operator # "literal"
  BY DEF IsQuery, ForOne
<1>2. Pair(n) = <<n, "=">> \o EncodeValue(variables[n][1], op)
  <2>1. Join(EncodedList(part, variables, n), ",") = EncodeValue(variables[n][1], part.operator)
    BY JoinedOne, Zenon
  <2> QED BY <2>1 DEF ForOne
<1> HIDE DEF Pair
<1>3. PICK g : g = Given(part, variables)
  OBVIOUS
<1>4. PICK s : s = [i \in DOMAIN g |-> Pair(g[i])]
  OBVIOUS
<1>5. Len(s) = 1 /\ DOMAIN s = 1..1 /\ s[1] = Pair(n)
  BY <1>3, <1>4 DEF ForOne
<1>6. Join(s, "&") = s[1]
  BY <1>5, JoinOne, Zenon
<1>7. ExpandPart(part, variables) = <<part.operator>> \o Join(s, "&")
  BY <1>1, <1>3, <1>4, Zenon DEF ExpandPart, ForOne, Pair
<1> QED BY <1>1, <1>2, <1>5, <1>6, <1>7 DEF Expanded, ForOne

LEMMA ExpandPath ==
    ASSUME NEW part, NEW op, op \in {".", "/"}, NEW n, NEW variables,
           ForOne(part, op, n, variables), Len(variables[n]) = 1, DOMAIN variables[n] = 1..1
    PROVE  Expanded(part, variables) = <<op>> \o EncodeValue(variables[n][1], op)
<1>1. ~IsQuery(part) /\ part.operator \in {".", "/"} /\ part.operator # "literal"
  BY DEF IsQuery, ForOne
<1>2. ~(Len(part.names) > 1) /\ part.names[1] = n
  BY DEF ForOne
<1>3. Join(EncodedList(part, variables, n), op) = EncodeValue(variables[n][1], part.operator)
  BY JoinedOne, Zenon
<1>4. ExpandPart(part, variables)
        = <<part.operator>> \o Join(EncodedList(part, variables, n), part.operator)
  BY <1>1, <1>2, Zenon DEF ExpandPart, ForOne
<1> QED BY <1>1, <1>3, <1>4, Zenon DEF Expanded, ForOne

LEMMA ExpandPlain ==
    ASSUME NEW part, NEW op, op \notin {"?", "&", ".", "/", "#"}, NEW n, NEW variables,
           ForOne(part, op, n, variables)
    PROVE  Expanded(part, variables) = <<>> \o Join(EncodedList(part, variables, n), ",")
<1>1. /\ ~IsQuery(part) /\ part.operator \notin {".", "/"} /\ part.operator # "#"
      /\ part.operator # "literal"
  BY DEF IsQuery, ForOne
<1>2. ~(Len(part.names) > 1) /\ part.names[1] = n
  BY DEF ForOne
<1>3. ExpandPart(part, variables) = <<>> \o Join(EncodedList(part, variables, n), ",")
  BY <1>1, <1>2, Zenon DEF ExpandPart, ForOne
<1> QED BY <1>1, <1>3, Zenon DEF Expanded

LEMMA ExpandLiteral ==
    ASSUME NEW text, NEW variables
    PROVE  Expanded(Literal(text), variables) = text /\ ~IsQuery(Literal(text))
BY DEF Expanded, Literal, IsQuery

\* A template with at most one query, at its end.
LEMMA ExpandTwo ==
    ASSUME NEW t, Len(t) = 2, DOMAIN t = 1..2, NEW variables, ~IsQuery(t[1])
    PROVE  Expand(t, variables) = Expanded(t[1], variables) \o Expanded(t[2], variables)
<1> DEFINE Query(k) == IsQuery(t[k]) /\ Expanded(t[k], variables) # <<>>
           F(k) == IF Query(k) /\ \E i \in 1..k - 1 : Query(i)
                   THEN <<"&">> \o Tail(Expanded(t[k], variables))
                   ELSE Expanded(t[k], variables)
<1>1. F(1) = Expanded(t[1], variables) /\ F(2) = Expanded(t[2], variables)
  OBVIOUS
<1>2. Expand(t, variables) = FlattenSeq([k \in DOMAIN t |-> F(k)])
  BY DEF Expand
<1> HIDE DEF F
<1>3. PICK s : s = [k \in DOMAIN t |-> F(k)]
  OBVIOUS
<1>4. Len(s) = 2 /\ s[1] = F(1) /\ s[2] = F(2)
  BY <1>3
<1>5. FlattenSeq(s) = s[1] \o s[2]
  BY <1>4, FlattenTwo, Zenon
<1> QED BY <1>1, <1>2, <1>3, <1>4, <1>5

LEMMA ExpandThree ==
    ASSUME NEW t, Len(t) = 3, DOMAIN t = 1..3, NEW variables, ~IsQuery(t[1]), ~IsQuery(t[2])
    PROVE  Expand(t, variables)
             = (Expanded(t[1], variables) \o Expanded(t[2], variables)) \o Expanded(t[3], variables)
<1> DEFINE Query(k) == IsQuery(t[k]) /\ Expanded(t[k], variables) # <<>>
           F(k) == IF Query(k) /\ \E i \in 1..k - 1 : Query(i)
                   THEN <<"&">> \o Tail(Expanded(t[k], variables))
                   ELSE Expanded(t[k], variables)
<1>1. /\ F(1) = Expanded(t[1], variables) /\ F(2) = Expanded(t[2], variables)
      /\ F(3) = Expanded(t[3], variables)
  OBVIOUS
<1>2. Expand(t, variables) = FlattenSeq([k \in DOMAIN t |-> F(k)])
  BY DEF Expand
<1> HIDE DEF F
<1>3. PICK s : s = [k \in DOMAIN t |-> F(k)]
  OBVIOUS
<1>4. Len(s) = 3 /\ s[1] = F(1) /\ s[2] = F(2) /\ s[3] = F(3)
  BY <1>3
<1>5. FlattenSeq(s) = (s[1] \o s[2]) \o s[3]
  BY <1>4, FlattenThree, Zenon
<1> QED BY <1>1, <1>2, <1>3, <1>4, <1>5

\* Patterns
LEMMA PatternTwo ==
    ASSUME NEW t, Len(t) = 2, DOMAIN t = 1..2
    PROVE  Pattern(t) = PartToRegExp(t[1]) \o PartToRegExp(t[2])
<1>1. PICK s : s = [i \in DOMAIN t |-> PartToRegExp(t[i])]
  OBVIOUS
<1>2. Len(s) = 2 /\ s[1] = PartToRegExp(t[1]) /\ s[2] = PartToRegExp(t[2])
  BY <1>1
<1> QED BY <1>1, <1>2, FlattenTwo DEF Pattern

LEMMA PatternThree ==
    ASSUME NEW t, Len(t) = 3, DOMAIN t = 1..3
    PROVE  Pattern(t) = (PartToRegExp(t[1]) \o PartToRegExp(t[2])) \o PartToRegExp(t[3])
<1>1. PICK s : s = [i \in DOMAIN t |-> PartToRegExp(t[i])]
  OBVIOUS
<1>2. /\ Len(s) = 3 /\ s[1] = PartToRegExp(t[1]) /\ s[2] = PartToRegExp(t[2])
      /\ s[3] = PartToRegExp(t[3])
  BY <1>1
<1> QED BY <1>1, <1>2, FlattenThree DEF Pattern

LEMMA LiteralPattern == ASSUME NEW text PROVE PartToRegExp(Literal(text)) = <<Text(text)>>
<1>1. PICK part : part = Literal(text)
  OBVIOUS
<1>2. part.operator = "literal" /\ part.text = text
  BY <1>1 DEF Literal
<1>3. ~IsQuery(part) /\ part.operator \notin {"+", "#", ".", "/"}
  BY <1>2 DEF IsQuery
<1>4. PartToRegExp(part) = <<Text(part.text)>>
  <2> HIDE <1>1
  <2> QED BY <1>2, <1>3 DEF PartToRegExp
<1> QED BY <1>1, <1>2, <1>4

LEMMA AnyPattern ==
    ASSUME NEW n, NEW exploded
    PROVE  PartToRegExp(Expression("+", <<n>>, exploded)) = <<Capture(n, "any", exploded)>>
BY DEF PartToRegExp, Expression, IsQuery

LEMMA PathPattern ==
    ASSUME NEW n, NEW op \in {".", "/"}
    PROVE  PartToRegExp(Expression(op, <<n>>, FALSE))
             = <<Text(<<op>>), Capture(n, "segment", FALSE)>>
BY DEF PartToRegExp, Expression, IsQuery

LEMMA QueryPattern ==
    ASSUME NEW n, NEW op \in {"?", "&"}
    PROVE  PartToRegExp(Expression(op, <<n>>, FALSE))
             = <<Text(<<op, n, "=">>), Capture(n, "query", FALSE)>>
<1>1. PICK part : part = Expression(op, <<n>>, FALSE)
  OBVIOUS
<1> DEFINE F(i) == <<Text(<<IF i = 1 THEN part.operator ELSE "&", part.names[i], "=">>),
                     Capture(part.names[i], "query", part.exploded)>>
<1>2. /\ part.operator = op /\ part.operator # "literal" /\ IsQuery(part)
      /\ part.names = <<n>> /\ part.exploded = FALSE
  BY <1>1 DEF Expression, IsQuery
<1>3. part.names[1] = n /\ DOMAIN part.names = 1..1
  BY <1>2
<1>4. F(1) = <<Text(<<op, n, "=">>), Capture(n, "query", FALSE)>>
  BY <1>2, <1>3
<1>5. PartToRegExp(part) = FlattenSeq([i \in DOMAIN part.names |-> F(i)])
  BY <1>2 DEF PartToRegExp
<1> HIDE DEF F
<1>6. PICK s : s = [i \in DOMAIN part.names |-> F(i)]
  OBVIOUS
<1>7. Len(s) = 1 /\ s[1] = F(1)
  BY <1>3, <1>6
<1> QED BY <1>1, <1>4, <1>5, <1>6, <1>7, FlattenOne

\* What a pattern is with what its groups capture.
LEMMA FilledTwo ==
    ASSUME NEW p, Len(p) = 2, DOMAIN p = 1..2, NEW found
    PROVE  Filled(p, found) = (IF 1 \in Groups(p) THEN found[1] ELSE p[1].text)
                                \o (IF 2 \in Groups(p) THEN found[2] ELSE p[2].text)
<1> DEFINE F(i) == IF i \in Groups(p) THEN found[i] ELSE p[i].text
<1> HIDE DEF F
<1>1. PICK s : s = [i \in DOMAIN p |-> F(i)]
  OBVIOUS
<1>2. Len(s) = 2 /\ s[1] = F(1) /\ s[2] = F(2)
  BY <1>1
<1>3. FlattenSeq(s) = s[1] \o s[2]
  BY <1>2, FlattenTwo, Zenon
<1>4. Filled(p, found) = FlattenSeq(s)
  BY <1>1 DEF Filled, F
<1> QED BY <1>2, <1>3, <1>4, Zenon DEF F

LEMMA FilledThree ==
    ASSUME NEW p, Len(p) = 3, DOMAIN p = 1..3, NEW found
    PROVE  Filled(p, found) = ((IF 1 \in Groups(p) THEN found[1] ELSE p[1].text)
                                \o (IF 2 \in Groups(p) THEN found[2] ELSE p[2].text))
                                \o (IF 3 \in Groups(p) THEN found[3] ELSE p[3].text)
<1> DEFINE F(i) == IF i \in Groups(p) THEN found[i] ELSE p[i].text
<1> HIDE DEF F
<1>1. PICK s : s = [i \in DOMAIN p |-> F(i)]
  OBVIOUS
<1>2. Len(s) = 3 /\ s[1] = F(1) /\ s[2] = F(2) /\ s[3] = F(3)
  BY <1>1
<1>3. FlattenSeq(s) = (s[1] \o s[2]) \o s[3]
  BY <1>2, FlattenThree, Zenon
<1>4. Filled(p, found) = FlattenSeq(s)
  BY <1>1 DEF Filled, F
<1> QED BY <1>2, <1>3, <1>4, Zenon DEF F

LEMMA FilledFour ==
    ASSUME NEW p, Len(p) = 4, DOMAIN p = 1..4, NEW found
    PROVE  Filled(p, found) = (((IF 1 \in Groups(p) THEN found[1] ELSE p[1].text)
                                \o (IF 2 \in Groups(p) THEN found[2] ELSE p[2].text))
                                \o (IF 3 \in Groups(p) THEN found[3] ELSE p[3].text))
                                \o (IF 4 \in Groups(p) THEN found[4] ELSE p[4].text)
<1> DEFINE F(i) == IF i \in Groups(p) THEN found[i] ELSE p[i].text
<1> HIDE DEF F
<1>1. PICK s : s = [i \in DOMAIN p |-> F(i)]
  OBVIOUS
<1>2. Len(s) = 4 /\ s[1] = F(1) /\ s[2] = F(2) /\ s[3] = F(3) /\ s[4] = F(4)
  BY <1>1
<1>3. FlattenSeq(s) = ((s[1] \o s[2]) \o s[3]) \o s[4]
  BY <1>2, FlattenFour, Zenon
<1>4. Filled(p, found) = FlattenSeq(s)
  BY <1>1 DEF Filled, F
<1> QED BY <1>2, <1>3, <1>4, Zenon DEF F

\* One group, at k, after the text before.
OneGroup(p, k, before, group) ==
    /\ Groups(p) = {k} /\ p[k] = group
    /\ \A found : Filled(p, found) = before \o found[k]

LEMMA OneGroupOfTwo ==
    ASSUME NEW a, NEW n, NEW class, NEW exploded
    PROVE  OneGroup(<<Text(a), Capture(n, class, exploded)>>, 2, a, Capture(n, class, exploded))
<1>1. PICK p, g : p = <<Text(a), g>> /\ g = Capture(n, class, exploded)
  OBVIOUS
<1>2. p[1] = Text(a) /\ p[2] = g /\ Len(p) = 2 /\ DOMAIN p = 1..2
  BY <1>1
<1>3. Text(a).kind # "capture" /\ Text(a).text = a /\ g.kind = "capture"
  BY <1>1 DEF Text, Capture
<1>4. Groups(p) = {2}
  BY <1>2, <1>3 DEF Groups
<1>5. ASSUME NEW found PROVE Filled(p, found) = a \o found[2]
  <2>1. 1 \notin Groups(p) /\ 2 \in Groups(p)
    BY <1>4
  <2> QED BY <1>2, <1>3, <2>1, FilledTwo, Zenon
<1>6. OneGroup(p, 2, a, g)
  BY <1>2, <1>4, <1>5 DEF OneGroup
<1> QED BY <1>1, <1>6

LEMMA OneGroupOfThree ==
    ASSUME NEW a, NEW b, NEW n, NEW class, NEW exploded
    PROVE  OneGroup(<<Text(a), Text(b), Capture(n, class, exploded)>>, 3, a \o b,
                    Capture(n, class, exploded))
<1>1. PICK p, g : p = <<Text(a), Text(b), g>> /\ g = Capture(n, class, exploded)
  OBVIOUS
<1>2. p[1] = Text(a) /\ p[2] = Text(b) /\ p[3] = g /\ Len(p) = 3 /\ DOMAIN p = 1..3
  BY <1>1
<1>3. /\ Text(a).kind # "capture" /\ Text(a).text = a /\ g.kind = "capture"
      /\ Text(b).kind # "capture" /\ Text(b).text = b
  BY <1>1 DEF Text, Capture
<1>4. Groups(p) = {3}
  BY <1>2, <1>3 DEF Groups
<1>5. ASSUME NEW found PROVE Filled(p, found) = (a \o b) \o found[3]
  <2>1. 1 \notin Groups(p) /\ 2 \notin Groups(p) /\ 3 \in Groups(p)
    BY <1>4
  <2> QED BY <1>2, <1>3, <2>1, FilledThree, Zenon
<1>6. OneGroup(p, 3, a \o b, g)
  BY <1>2, <1>4, <1>5 DEF OneGroup
<1> QED BY <1>1, <1>6

\* Two groups, at j and k, with a text between them and one before them.
TwoGroups(p, j, k, before, between, first, second) ==
    /\ Groups(p) = {j, k} /\ p[j] = first /\ p[k] = second
    /\ \A found : found[j] \in Seq(Chars) =>
        Filled(p, found) = ((before \o found[j]) \o between) \o found[k]

LEMMA TwoGroupsOfThree ==
    ASSUME NEW b, NEW n, NEW o, NEW class, NEW other
    PROVE  TwoGroups(<<Capture(n, class, FALSE), Text(b), Capture(o, other, FALSE)>>,
                     1, 3, <<>>, b, Capture(n, class, FALSE), Capture(o, other, FALSE))
<1>1. PICK p, g, h : /\ p = <<g, Text(b), h>>
                     /\ g = Capture(n, class, FALSE) /\ h = Capture(o, other, FALSE)
  OBVIOUS
<1>2. p[1] = g /\ p[2] = Text(b) /\ p[3] = h
  BY <1>1
<1>3. Len(p) = 3 /\ DOMAIN p = 1..3
  BY <1>1
<1>4. /\ g.kind = "capture" /\ h.kind = "capture"
      /\ Text(b).kind # "capture" /\ Text(b).text = b
  BY <1>1 DEF Text, Capture
<1>5. Groups(p) = {1, 3}
  BY <1>2, <1>3, <1>4 DEF Groups
<1>6. ASSUME NEW found, found[1] \in Seq(Chars)
      PROVE  Filled(p, found) = ((<<>> \o found[1]) \o b) \o found[3]
  <2>1. 1 \in Groups(p) /\ 2 \notin Groups(p) /\ 3 \in Groups(p)
    BY <1>5
  <2>2. Filled(p, found) = (found[1] \o b) \o found[3]
    BY <1>2, <1>3, <1>4, <2>1, FilledThree, Zenon
  <2>3. <<>> \o found[1] = found[1]
    BY <1>6, ConcatEmptySeq
  <2> QED BY <2>2, <2>3
<1>7. TwoGroups(p, 1, 3, <<>>, b, g, h)
  BY <1>2, <1>5, <1>6 DEF TwoGroups
<1> QED BY <1>1, <1>7

LEMMA TwoGroupsOfFour ==
    ASSUME NEW a, NEW b, NEW n, NEW o, NEW class, NEW other
    PROVE  TwoGroups(<<Text(a), Capture(n, class, FALSE), Text(b), Capture(o, other, FALSE)>>,
                     2, 4, a, b, Capture(n, class, FALSE), Capture(o, other, FALSE))
<1>1. PICK p, g, h : /\ p = <<Text(a), g, Text(b), h>>
                     /\ g = Capture(n, class, FALSE) /\ h = Capture(o, other, FALSE)
  OBVIOUS
<1>2. p[1] = Text(a) /\ p[2] = g /\ p[3] = Text(b) /\ p[4] = h
  BY <1>1
<1>3. Len(p) = 4 /\ DOMAIN p = 1..4
  BY <1>1
<1>4. /\ Text(a).kind # "capture" /\ Text(a).text = a /\ g.kind = "capture"
      /\ Text(b).kind # "capture" /\ Text(b).text = b /\ h.kind = "capture"
  BY <1>1 DEF Text, Capture
<1>5. Groups(p) = {2, 4}
  BY <1>2, <1>3, <1>4 DEF Groups
<1>6. ASSUME NEW found PROVE Filled(p, found) = ((a \o found[2]) \o b) \o found[4]
  <2>1. 1 \notin Groups(p) /\ 2 \in Groups(p) /\ 3 \notin Groups(p) /\ 4 \in Groups(p)
    BY <1>5
  <2> QED BY <1>2, <1>3, <1>4, <2>1, FilledFour, Zenon
<1>7. TwoGroups(p, 2, 4, a, b, g, h)
  BY <1>2, <1>5, <1>6 DEF TwoGroups
<1> QED BY <1>1, <1>7

\* What the groups capture: the URI decides it alone.

Grouping(C, a, b, c, d) ==
    /\ ((a \o b) \o c) \o d = a \o ((b \o c) \o d)
    /\ (b \o c) \o d \in Seq(C)

LEMMA Regrouped ==
    ASSUME NEW C, NEW a \in Seq(C), NEW b \in Seq(C), NEW c \in Seq(C), NEW d \in Seq(C)
    PROVE  Grouping(C, a, b, c, d)
<1>1. PICK bc \in Seq(C) : bc = b \o c
  BY ConcatProperties
<1>2. PICK x \in Seq(C) : x = bc \o d
  BY ConcatProperties
<1>3. PICK y \in Seq(C) : y = a \o bc
  BY ConcatProperties
<1>4. (a \o b) \o c = y
  BY <1>1, <1>3
<1>5. (a \o bc) \o d = a \o (bc \o d)
  OBVIOUS
<1>6. y \o d = a \o x
  BY <1>2, <1>3, <1>5
<1> QED BY <1>1, <1>2, <1>4, <1>6 DEF Grouping

LEMMA CancelBefore ==
    ASSUME NEW C, NEW a \in Seq(C), NEW b \in Seq(C), NEW c \in Seq(C), a \o b = a \o c
    PROVE  b = c
BY ConcatSimplifications

Sole(f, k, e) == f = [i \in {k} |-> e]
Both(f, j, k, a, b) == f = [i \in {j, k} |-> IF i = j THEN a ELSE b]
After(uri, before, e) == uri = before \o e
Around(uri, before, a, between, b) == uri = ((before \o a) \o between) \o b

OneFits(p, k, before, group, e, uri, f) ==
    /\ before \in Seq(Chars) /\ e \in Seq(Chars)
    /\ OneGroup(p, k, before, group) /\ Accepts(group.class, e)
    /\ After(uri, before, e) /\ Sole(f, k, e)

\* What one group captures is the rest of the URI, and nothing else is.
LEMMA CapturesOne ==
    ASSUME NEW p, NEW k, NEW before, NEW group, NEW e, NEW uri, NEW f,
           OneFits(p, k, before, group, e, uri, f)
    PROVE  Captures(p, uri) = {f}
<1>1. uri = before \o e /\ before \in Seq(Chars) /\ e \in Seq(Chars)
  BY DEF OneFits, After
<1>2. f = [i \in {k} |-> e]
  BY DEF OneFits, Sole
<1>3. OneGroup(p, k, before, group) /\ Accepts(group.class, e)
  BY DEF OneFits
<1>4. f[k] = e /\ DOMAIN f = {k}
  BY <1>2
<1>5. e \in SubSeqs(uri)
  <2>1. e \in SubSeqs((before \o e) \o <<>>)
    BY <1>1, PartOf, EmptySeq
  <2>2. uri \in Seq(Chars)
    BY <1>1, ConcatProperties
  <2> QED BY <2>1, <2>2, <1>1, ConcatEmptySeq
<1>6. f \in Captures(p, uri)
  <2>1. f \in [Groups(p) -> SubSeqs(uri)]
    BY <1>2, <1>5, <1>3 DEF OneGroup
  <2>2. \A i \in Groups(p) : Accepts(p[i].class, f[i])
    BY <1>4, <1>3 DEF OneGroup
  <2>3. Filled(p, f) = uri
    BY <1>1, <1>4, <1>3 DEF OneGroup
  <2> QED BY <2>1, <2>2, <2>3 DEF Captures
<1>7. ASSUME NEW g \in Captures(p, uri) PROVE g = f
  <2>1. g \in [{k} -> SubSeqs(uri)] /\ before \o g[k] = before \o e
    BY <1>1, <1>3 DEF Captures, OneGroup
  <2>2. g[k] \in Seq(Chars)
    BY <2>1, <1>1, PartsAreTexts, ConcatProperties
  <2>3. g[k] = e
    BY <1>1, <2>1, <2>2, ConcatSimplifications
  <2> QED BY <1>2, <2>1, <2>3
<1> QED BY <1>1, <1>2, <1>6, <1>7

TwoFit(p, j, k, before, between, first, second, a, b, uri, f) ==
    /\ before \in Seq(Chars) /\ between \in Seq(Chars) /\ a \in Seq(Chars) /\ b \in Seq(Chars)
    /\ TwoGroups(p, j, k, before, between, first, second) /\ j # k
    /\ Accepts(first.class, a) /\ Accepts(second.class, b) /\ Separates(between, Chars, a, b)
    /\ Around(uri, before, a, between, b) /\ Both(f, j, k, a, b)

\* What two groups capture is decided by the separator between them.
LEMMA CapturesTwo ==
    ASSUME NEW p, NEW j, NEW k, NEW before, NEW between, NEW first, NEW second,
           NEW a, NEW b, NEW uri, NEW f,
           TwoFit(p, j, k, before, between, first, second, a, b, uri, f)
    PROVE  Captures(p, uri) = {f}
<1>1. /\ uri = ((before \o a) \o between) \o b
      /\ before \in Seq(Chars) /\ between \in Seq(Chars) /\ a \in Seq(Chars) /\ b \in Seq(Chars)
  BY DEF TwoFit, Around
<1>2. f = [i \in {j, k} |-> IF i = j THEN a ELSE b] /\ j # k
  BY DEF TwoFit, Both
<1>3. /\ TwoGroups(p, j, k, before, between, first, second)
      /\ Accepts(first.class, a) /\ Accepts(second.class, b) /\ Separates(between, Chars, a, b)
  BY DEF TwoFit
<1>4. f[j] = a /\ f[k] = b /\ DOMAIN f = {j, k}
  BY <1>2
<1>5. before \o a \in Seq(Chars) /\ (before \o a) \o between \in Seq(Chars) /\ uri \in Seq(Chars)
  <2>1. before \o a \in Seq(Chars)
    BY <1>1, ConcatProperties
  <2>2. (before \o a) \o between \in Seq(Chars)
    BY <1>1, <2>1, ConcatProperties
  <2> QED BY <1>1, <2>1, <2>2, ConcatProperties
<1>6. a \in SubSeqs(uri)
  <2>1. between \o b \in Seq(Chars)
    BY <1>1, ConcatProperties
  <2>2. uri = (before \o a) \o (between \o b)
    <3>1. PICK x \in Seq(Chars) : x = before \o a
      BY <1>5
    <3>2. (x \o between) \o b = x \o (between \o b)
      BY <1>1
    <3> QED BY <1>1, <3>1, <3>2
  <2> QED BY <1>1, <1>5, <2>1, <2>2, PartOf
<1>7. b \in SubSeqs(uri)
  <2>1. b \in SubSeqs((((before \o a) \o between) \o b) \o <<>>)
    BY <1>1, <1>5, PartOf, EmptySeq
  <2> QED BY <2>1, <1>1, <1>5, ConcatEmptySeq
<1>8. f \in Captures(p, uri)
  <2>1. f \in [Groups(p) -> SubSeqs(uri)]
    BY <1>2, <1>6, <1>7, <1>3 DEF TwoGroups
  <2>2. \A i \in Groups(p) : Accepts(p[i].class, f[i])
    BY <1>4, <1>3 DEF TwoGroups
  <2>3. Filled(p, f) = uri
    BY <1>1, <1>4, <1>3 DEF TwoGroups
  <2> QED BY <2>1, <2>2, <2>3 DEF Captures
<1>9. ASSUME NEW g \in Captures(p, uri) PROVE g = f
  <2>1. g \in [{j, k} -> SubSeqs(uri)] /\ Filled(p, g) = uri
    BY <1>1, <1>3 DEF Captures, TwoGroups
  <2>2. PICK c, d \in Seq(Chars) : c = g[j] /\ d = g[k]
    BY <2>1, <1>1, <1>5, PartsAreTexts
  <2>3. /\ g \in [{j, k} -> SubSeqs(uri)]
        /\ ((before \o g[j]) \o between) \o g[k] = ((before \o a) \o between) \o b
    BY <1>1, <1>3, <2>1, <2>2 DEF TwoGroups
  <2>4. (c \o between) \o d = (a \o between) \o b
    <3>1. Grouping(Chars, before, c, between, d) /\ Grouping(Chars, before, a, between, b)
      BY <1>1, Regrouped
    <3>2. PICK x, y \in Seq(Chars) : x = (c \o between) \o d /\ y = (a \o between) \o b
      BY <3>1 DEF Grouping
    <3>3. before \o x = before \o y
      BY <2>3, <2>2, <3>1, <3>2 DEF Grouping
    <3>4. x = y
      BY <1>1, <3>2, <3>3, CancelBefore
    <3> QED BY <3>2, <3>4
  <2>5. c = a /\ d = b
    <3>1. Separates(between, Chars, a, b) /\ SameText(between, a, b, c, d)
      BY <1>1, <1>3, <2>4 DEF SameText
    <3> QED BY <1>1, <3>1, SplitOnce, Zenon
  <2> QED BY <1>2, <2>3, <2>2, <2>5
<1> QED BY <1>1, <1>2, <1>8, <1>9

\* Where only one capture is possible, the choice of the greediest finds it.
LEMMA MatchFinds ==
    ASSUME NEW t, NEW uri, NEW f, Captures(Pattern(t), uri) = {f}
    PROVE  Match(t, uri) = {Values(Pattern(t), f)}
<1>1. PICK p : p = Pattern(t)
  OBVIOUS
<1>2. Captures(p, uri) # {}
  BY <1>1
<1>3. (CHOOSE g \in Captures(p, uri) : \A h \in Captures(p, uri) \ {g} : Greedier(g, h)) = f
  BY <1>1
<1> QED BY <1>1, <1>2, <1>3, Zenon DEF Match

ValueOf(p, k, f) ==
    Values(p, f) = [name \in {p[k].name} |-> IF p[k].exploded THEN Split(f[k]) ELSE <<f[k]>>]

\* What the names of one and of two groups stand for.
LEMMA ValuesOfOne ==
    ASSUME NEW p, NEW k \in Nat, Groups(p) = {k}, NEW f
    PROVE  ValueOf(p, k, f)
<1>1. {p[i].name : i \in Groups(p)} = {p[k].name}
  OBVIOUS
<1>2. (CHOOSE j \in Groups(p) : p[j].name = p[k].name
            /\ \A i \in Groups(p) : p[i].name = p[k].name => i <= j) = k
  OBVIOUS
<1> QED BY <1>1, <1>2 DEF Values, ValueOf

LEMMA ValuesOfTwo ==
    ASSUME NEW p, NEW j \in Nat, NEW k \in Nat, j # k, Groups(p) = {j, k}, NEW f,
           p[j].name = "v", p[k].name = "w", p[j].exploded = FALSE, p[k].exploded = FALSE
    PROVE  Values(p, f) = [v |-> <<f[j]>>, w |-> <<f[k]>>]
<1> DEFINE At(name) == CHOOSE i \in Groups(p) :
                p[i].name = name /\ \A h \in Groups(p) : p[h].name = name => h <= i
<1>1. {p[i].name : i \in Groups(p)} = {"v", "w"}
  OBVIOUS
<1>2. At("v") = j /\ At("w") = k
  OBVIOUS
<1>3. Values(p, f) = [name \in {"v", "w"} |->
                        IF p[At(name)].exploded THEN Split(f[At(name)]) ELSE <<f[At(name)]>>]
  BY <1>1 DEF Values
<1> HIDE DEF At
<1> QED BY <1>2, <1>3

\* One variable.
OneMatches(t, k, before, class, exploded, e, uri) ==
    /\ k \in Nat /\ before \in Seq(Chars) /\ e \in Seq(Chars) /\ exploded \in BOOLEAN
    /\ OneGroup(Pattern(t), k, before, Capture("v", class, exploded)) /\ Accepts(class, e)
    /\ After(uri, before, e)

MatchesOne(t, uri, exploded, e) ==
    Match(t, uri) = {[v |-> IF exploded THEN Split(e) ELSE <<e>>]}

LEMMA MatchOne ==
    ASSUME NEW t, NEW k, NEW before, NEW class, NEW exploded, NEW e, NEW uri,
           OneMatches(t, k, before, class, exploded, e, uri)
    PROVE  MatchesOne(t, uri, exploded, e)
<1>1. /\ k \in Nat /\ before \in Seq(Chars) /\ e \in Seq(Chars) /\ exploded \in BOOLEAN
      /\ OneGroup(Pattern(t), k, before, Capture("v", class, exploded)) /\ Accepts(class, e)
      /\ After(uri, before, e)
  BY DEF OneMatches
<1>2. PICK g : g = Capture("v", class, exploded)
  OBVIOUS
<1>3. g.class = class /\ g.name = "v" /\ g.exploded = exploded
  BY <1>2 DEF Capture
<1>4. PICK p : p = Pattern(t)
  OBVIOUS
<1>5. PICK f : Sole(f, k, e)
  BY DEF Sole
<1>6. OneGroup(p, k, before, g) /\ Accepts(g.class, e)
  BY <1>1, <1>2, <1>4, <1>3
<1>7. Captures(p, uri) = {f}
  <2>1. OneFits(p, k, before, g, e, uri, f)
    BY <1>1, <1>5, <1>6 DEF OneFits
  <2> QED BY <2>1, CapturesOne, Zenon
<1>8. Groups(p) = {k} /\ p[k] = g
  BY <1>6 DEF OneGroup
<1>9. ValueOf(p, k, f)
  BY <1>1, <1>8, ValuesOfOne, Zenon
<1>10. Values(p, f) = [v |-> IF exploded THEN Split(e) ELSE <<e>>]
  BY <1>1, <1>3, <1>5, <1>8, <1>9 DEF ValueOf, Sole
<1>11. Match(t, uri) = {Values(p, f)}
  BY <1>4, <1>7, MatchFinds, Zenon
<1> QED BY <1>10, <1>11 DEF MatchesOne

\* Two of them.
TwoMatch(t, j, k, before, between, class, other, a, b, uri) ==
    /\ j \in Nat /\ k \in Nat /\ j # k
    /\ before \in Seq(Chars) /\ a \in Seq(Chars) /\ b \in Seq(Chars)
    /\ TwoGroups(Pattern(t), j, k, before, between, Capture("v", class, FALSE),
                 Capture("w", other, FALSE))
    /\ Accepts(class, a) /\ Accepts(other, b) /\ Separates(between, Chars, a, b)
    /\ Around(uri, before, a, between, b)

MatchesTwo(t, uri, a, b) == Match(t, uri) = {[v |-> <<a>>, w |-> <<b>>]}

LEMMA MatchTwo ==
    ASSUME NEW t, NEW j, NEW k, NEW before, NEW between, NEW class, NEW other,
           NEW a, NEW b, NEW uri,
           TwoMatch(t, j, k, before, between, class, other, a, b, uri)
    PROVE  MatchesTwo(t, uri, a, b)
<1>1. /\ j \in Nat /\ k \in Nat /\ j # k
      /\ before \in Seq(Chars) /\ a \in Seq(Chars) /\ b \in Seq(Chars)
      /\ TwoGroups(Pattern(t), j, k, before, between, Capture("v", class, FALSE),
                   Capture("w", other, FALSE))
      /\ Accepts(class, a) /\ Accepts(other, b) /\ Separates(between, Chars, a, b)
      /\ Around(uri, before, a, between, b)
  BY DEF TwoMatch
<1>2. PICK g, h : g = Capture("v", class, FALSE) /\ h = Capture("w", other, FALSE)
  OBVIOUS
<1>3. /\ g.class = class /\ g.name = "v" /\ g.exploded = FALSE
      /\ h.class = other /\ h.name = "w" /\ h.exploded = FALSE
  BY <1>2 DEF Capture
<1>4. PICK p : p = Pattern(t)
  OBVIOUS
<1>5. PICK f : Both(f, j, k, a, b)
  BY DEF Both
<1>6. TwoGroups(p, j, k, before, between, g, h)
  BY <1>1, <1>2, <1>3, <1>4
<1>7. Captures(p, uri) = {f}
  <2>1. Accepts(g.class, a) /\ Accepts(h.class, b) /\ between \in Seq(Chars)
    BY <1>1, <1>2, <1>3 DEF Separates
  <2>2. TwoFit(p, j, k, before, between, g, h, a, b, uri, f)
    BY <1>1, <1>6, <2>1, <1>5 DEF TwoFit
  <2> QED BY <2>2, CapturesTwo
<1>8. Groups(p) = {j, k} /\ p[j] = g /\ p[k] = h
  BY <1>6 DEF TwoGroups
<1>9. Values(p, f) = [v |-> <<a>>, w |-> <<b>>]
  <2>1. Values(p, f) = [v |-> <<f[j]>>, w |-> <<f[k]>>]
    <3>1. /\ p[j].name = "v" /\ p[k].name = "w"
          /\ p[j].exploded = FALSE /\ p[k].exploded = FALSE
      BY <1>2, <1>3, <1>8
    <3> QED BY <1>1, <3>1, <1>8, ValuesOfTwo, Zenon
  <2> QED BY <1>1, <2>1, <1>5 DEF Both
<1>10. Match(t, uri) = {Values(p, f)}
  BY <1>4, <1>7, MatchFinds, Zenon
<1> QED BY <1>9, <1>10 DEF MatchesTwo

\* Split() at any separator, of which the comma is one.
Comma == ","

SplitBy(separator, text) ==
    LET commas == {i \in DOMAIN text : text[i] = separator}
    IN  CHOOSE parts \in [1..Cardinality(commas) + 1 -> SubSeqs(text)] :
            /\ \A i \in DOMAIN parts : separator \notin ToSet(parts[i])
            /\ Join(parts, separator) = text

LEMMA SplitIsByComma == ASSUME NEW s PROVE Split(s) = SplitBy(Comma, s)
BY Zenon DEF Split, SplitBy, Comma

LEMMA CommaIsChar ==
    Comma \in Reserved /\ Comma \in Chars /\ "/" \in Reserved /\ Comma # "/"
<1>1. Comma \in Reserved /\ "/" \in Reserved /\ Comma # "/"
  BY Zenon DEF Comma, Reserved
<1> QED BY <1>1, Zenon DEF Chars

\* What the class list accepts.
LEMMA IsList ==
    ASSUME NEW s, s # <<>>, "/" \notin ToSet(s), s[1] # Comma, s[Len(s)] # Comma,
           \A i \in 1..Len(s) - 1 : s[i] # Comma \/ s[i + 1] # Comma
    PROVE  Accepts("list", s)
BY Zenon DEF Accepts, Comma

LEMMA CommaText == ASSUME NEW m, m = <<Comma>> PROVE m \in Seq(Chars) /\ Len(m) = 1 /\ m[1] = Comma
BY CommaIsChar

\* Two texts with a comma between them.
Listed(s, a, b) == s = a \o (<<Comma>> \o b)

ListChars(s, a, b) ==
    /\ s \in Seq(Chars) /\ Len(s) = Len(a) + 1 + Len(b)
    /\ \A i \in 1..Len(a) : s[i] = a[i] /\ s[i] # Comma /\ s[i] # "/"
    /\ s[Len(a) + 1] = Comma
    /\ \A i \in Len(a) + 2..Len(a) + 1 + Len(b) :
        s[i] = b[i - (Len(a) + 1)] /\ s[i] # Comma /\ s[i] # "/"

\* Pairs as sequences.
LEMMA PairOf ==
    ASSUME NEW a, NEW b, NEW p, p = <<a, b>>
    PROVE  p[1] = a /\ p[2] = b /\ Len(p) = 2 /\ DOMAIN p = 1..2
OBVIOUS

LEMMA IsPair ==
    ASSUME NEW S, NEW p \in [1..2 -> S], NEW a, NEW b, p[1] = a, p[2] = b
    PROVE  p = <<a, b>>
OBVIOUS

\* An escaped text has neither comma nor slash in it.
LEMMA PlainChars ==
    ASSUME NEW a \in Plain
    PROVE  /\ a \in Seq(Chars) /\ Len(a) \in Nat /\ Len(a) >= 1
           /\ Comma \notin ToSet(a) /\ "/" \notin ToSet(a)
           /\ \A i \in 1..Len(a) : a[i] # Comma /\ a[i] # "/"
<1>1. a \in Seq(Chars) /\ a # <<>> /\ ToSet(a) \cap Reserved = {}
  BY DEF Plain, Texts
<1>2. Comma \notin ToSet(a) /\ "/" \notin ToSet(a)
  BY <1>1, CommaIsChar
<1> QED BY <1>1, <1>2, NotInText

\* The characters of two escaped texts with a comma between them.
LEMMA ListedChars ==
    ASSUME NEW a \in Plain, NEW b \in Plain, NEW s, Listed(s, a, b)
    PROVE  /\ ListChars(s, a, b)
           /\ s = (a \o <<Comma>>) \o b
           /\ Composed(Chars, s, a, <<Comma>>, b)
<1>1. /\ a \in Seq(Chars) /\ b \in Seq(Chars) /\ Len(a) \in Nat /\ Len(b) \in Nat
      /\ \A i \in 1..Len(a) : a[i] # Comma /\ a[i] # "/"
      /\ \A i \in 1..Len(b) : b[i] # Comma /\ b[i] # "/"
  BY PlainChars
<1>2. PICK m \in Seq(Chars) : m = <<Comma>> /\ Len(m) = 1 /\ m[1] = Comma
  BY CommaText
<1>3. s = (a \o m) \o b
  BY <1>1, <1>2 DEF Listed
<1>4. Composed(Chars, s, a, m, b)
  BY <1>1, <1>3, ConcatOf, Zenon
<1>5. ListChars(s, a, b)
  <2>1. PICK k, n \in Nat : k = Len(a) /\ n = Len(b)
    BY <1>1
  <2>2. /\ s \in Seq(Chars) /\ Len(s) = k + 1 + n
        /\ \A i \in 1..k : s[i] = a[i]
        /\ \A i \in k + 1..k + 1 : s[i] = m[i - k]
        /\ \A i \in k + 1 + 1..k + 1 + n : s[i] = b[i - (k + 1)]
    BY <1>2, <1>4, <2>1 DEF Composed
  <2>3. s[k + 1] = Comma
    BY <1>2, <2>2
  <2>4. \A i \in k + 2..k + 1 + n : s[i] = b[i - (k + 1)] /\ i - (k + 1) \in 1..n
    BY <2>2
  <2> QED BY <1>1, <2>1, <2>2, <2>3, <2>4 DEF ListChars
<1> QED BY <1>2, <1>3, <1>4, <1>5

\* The class list accepts such a text.
LEMMA AcceptsListed ==
    ASSUME NEW a \in Plain, NEW b \in Plain, NEW s, Listed(s, a, b)
    PROVE  Accepts("list", s) /\ s \in Seq(Chars)
<1>1. PICK k, n \in Nat : k = Len(a) /\ n = Len(b) /\ k >= 1 /\ n >= 1
  BY PlainChars
<1>2. ListChars(s, a, b)
  BY ListedChars
<1>3. /\ s \in Seq(Chars) /\ Len(s) = k + 1 + n
      /\ \A i \in 1..k : s[i] # Comma /\ s[i] # "/"
      /\ s[k + 1] = Comma
      /\ \A i \in k + 2..k + 1 + n : s[i] # Comma /\ s[i] # "/"
  BY <1>1, <1>2 DEF ListChars
<1>4. s # <<>>
  BY <1>3, <1>1
<1>5. "/" \notin ToSet(s)
  <2>1. \A i \in 1..Len(s) : s[i] # "/"
    BY <1>1, <1>3, CommaIsChar
  <2> QED BY <1>3, <2>1, ToSetOf
<1>6. s[1] # Comma /\ s[Len(s)] # Comma
  BY <1>1, <1>3
<1>7. \A i \in 1..Len(s) - 1 : s[i] # Comma \/ s[i + 1] # Comma
  BY <1>1, <1>3
<1> QED BY <1>3, <1>4, <1>5, <1>6, <1>7, IsList

\* Such a text is split into the two.
LEMMA SplitListed ==
    ASSUME NEW a \in Plain, NEW b \in Plain, NEW s, Listed(s, a, b)
    PROVE  Split(s) = <<a, b>>
<1>1. PICK k, n \in Nat : k = Len(a) /\ n = Len(b)
  BY PlainChars
<1>2. /\ s \in Seq(Chars) /\ Len(s) = k + 1 + n
      /\ \A i \in 1..k : s[i] # Comma
      /\ s[k + 1] = Comma
      /\ \A i \in k + 2..k + 1 + n : s[i] # Comma
  BY <1>1, ListedChars DEF ListChars
<1>3. {i \in DOMAIN s : s[i] = Comma} = {k + 1}
  <2>1. DOMAIN s = 1..k + 1 + n
    BY <1>2
  <2> QED BY <1>1, <1>2, <2>1
<1>4. Cardinality({i \in DOMAIN s : s[i] = Comma}) + 1 = 2
  <2>1. PICK S : S = {i \in DOMAIN s : s[i] = Comma} /\ S = {k + 1}
    BY <1>3
  <2>2. Cardinality(S) = 1
    BY <2>1, FS_Singleton, Zenon
  <2>3. Cardinality(S) + 1 = 2
    BY <2>2
  <2> QED BY <2>1, <2>3, Zenon
<1> DEFINE Good(parts) == /\ \A i \in DOMAIN parts : Comma \notin ToSet(parts[i])
                          /\ Join(parts, Comma) = s
<1>5. Split(s) = CHOOSE parts \in [1..2 -> SubSeqs(s)] : Good(parts)
  BY <1>4, SplitIsByComma DEF SplitBy
<1>6. a \in SubSeqs(s) /\ b \in SubSeqs(s)
  <2>1. PICK m \in Seq(Chars) : m = <<Comma>>
    BY CommaText
  <2>2. a \in Seq(Chars) /\ b \in Seq(Chars) /\ <<>> \in Seq(Chars) /\ m \o b \in Seq(Chars)
    BY PlainChars, ConcatProperties
  <2>3. a \in SubSeqs((<<>> \o a) \o (m \o b))
    BY <2>2, PartOf
  <2>4. b \in SubSeqs(((a \o m) \o b) \o <<>>)
    <3>1. a \o m \in Seq(Chars)
      BY <2>2, ConcatProperties
    <3> QED BY <2>2, <3>1, PartOf
  <2>5. <<>> \o a = a
    BY <2>2, ConcatEmptySeq
  <2>6. s = (a \o m) \o b
    BY <2>1, ListedChars
  <2>7. s \o <<>> = s
    BY <1>2, ConcatEmptySeq
  <2> QED BY <2>1, <2>3, <2>4, <2>5, <2>6, <2>7 DEF Listed
<1>7. <<a, b>> \in [1..2 -> SubSeqs(s)] /\ Good(<<a, b>>)
  <2>1. PICK p : p = <<a, b>>
    OBVIOUS
  <2>2. p[1] = a /\ p[2] = b /\ Len(p) = 2 /\ DOMAIN p = 1..2
    BY <2>1, PairOf
  <2>3. Join(p, Comma) = s
    BY <2>2, JoinTwo DEF Listed
  <2>4. \A i \in DOMAIN p : Comma \notin ToSet(p[i])
    BY <2>2, PlainChars
  <2> QED BY <1>6, <2>1, <2>2, <2>3, <2>4
<1>8. ASSUME NEW p \in [1..2 -> SubSeqs(s)], Good(p) PROVE p = <<a, b>>
  <2>1. PICK c, d \in Seq(Chars) : c = p[1] /\ d = p[2]
    BY <1>2, PartsAreTexts
  <2>2. Len(p) = 2 /\ DOMAIN p = 1..2
    BY PairOf
  <2>3. s = c \o (<<Comma>> \o d)
    BY <1>8, <2>1, <2>2, JoinTwo
  <2>4. PICK m \in Seq(Chars) : m = <<Comma>> /\ Len(m) = 1 /\ m[1] = Comma
    BY CommaText
  <2>5. s = (c \o m) \o d
    BY <2>3, <2>4
  <2>6. Separates(m, Chars, a, b) /\ SameText(m, a, b, c, d)
    <3>1. s = (a \o m) \o b
      BY <2>4, ListedChars
    <3>2. Comma \notin ToSet(a) /\ Comma \notin ToSet(b)
      BY PlainChars
    <3>3. SameText(m, a, b, c, d)
      BY <2>5, <3>1, Zenon DEF SameText
    <3>4. Separates(m, Chars, a, b)
      BY <2>4, <3>2 DEF Separates
    <3> QED BY <3>3, <3>4
  <2>7. a \in Seq(Chars) /\ b \in Seq(Chars)
    BY PlainChars
  <2>8. c = a /\ d = b
    BY <2>6, <2>7, SplitOnce
  <2>9. PICK S : S = SubSeqs(s) /\ p \in [1..2 -> S]
    OBVIOUS
  <2>10. p[1] = a /\ p[2] = b
    BY <2>1, <2>8
  <2> QED BY <2>9, <2>10, IsPair
<1> HIDE DEF Good
<1> QED BY <1>5, <1>7, <1>8

\* Concatenation of short tuples.
LEMMA OneAndOne ==
    ASSUME NEW a, NEW b
    PROVE  <<a>> \o <<b>> = <<a, b>>
<1>1. PICK x, y : x = <<a>> /\ y = <<b>>
  OBVIOUS
<1>2. PICK S : S = {a, b}
  OBVIOUS
<1>3. x \in Seq(S) /\ y \in Seq(S) /\ Len(x) = 1 /\ Len(y) = 1 /\ x[1] = a /\ y[1] = b
  BY <1>1, <1>2
<1>4. PICK z : z = x \o y
  OBVIOUS
<1>5. Composed2(S, z, x, y)
  BY <1>3, <1>4, ConcatOfTwo, Zenon
<1>6. Len(z) = 2 /\ z[1] = a /\ z[2] = b
  BY <1>3, <1>5 DEF Composed2
<1>7. z \in Seq(S)
  BY <1>5 DEF Composed2
<1>8. z = <<a, b>>
  BY <1>6, <1>7
<1> QED BY <1>1, <1>4, <1>8

LEMMA OneAndTwo ==
    ASSUME NEW a, NEW b, NEW c
    PROVE  <<a>> \o <<b, c>> = <<a, b, c>>
<1>1. PICK x, y : x = <<a>> /\ y = <<b, c>>
  OBVIOUS
<1>2. PICK S : S = {a, b, c}
  OBVIOUS
<1>3. /\ x \in Seq(S) /\ y \in Seq(S) /\ Len(x) = 1 /\ Len(y) = 2
      /\ x[1] = a /\ y[1] = b /\ y[2] = c
  BY <1>1, <1>2
<1>4. PICK z : z = x \o y
  OBVIOUS
<1>5. Composed2(S, z, x, y)
  BY <1>3, <1>4, ConcatOfTwo, Zenon
<1>6. Len(z) = 3 /\ z[1] = a /\ z[2] = b /\ z[3] = c
  BY <1>3, <1>5 DEF Composed2
<1>7. z \in Seq(S)
  BY <1>5 DEF Composed2
<1>8. z = <<a, b, c>>
  BY <1>6, <1>7
<1> QED BY <1>1, <1>4, <1>8

LEMMA TwoAndOne ==
    ASSUME NEW a, NEW b, NEW c
    PROVE  <<a, b>> \o <<c>> = <<a, b, c>>
<1>1. PICK x, y : x = <<a, b>> /\ y = <<c>>
  OBVIOUS
<1>2. PICK S : S = {a, b, c}
  OBVIOUS
<1>3. /\ x \in Seq(S) /\ y \in Seq(S) /\ Len(x) = 2 /\ Len(y) = 1
      /\ x[1] = a /\ x[2] = b /\ y[1] = c
  BY <1>1, <1>2
<1>4. PICK z : z = x \o y
  OBVIOUS
<1>5. Composed2(S, z, x, y)
  BY <1>3, <1>4, ConcatOfTwo, Zenon
<1>6. Len(z) = 3 /\ z[1] = a /\ z[2] = b /\ z[3] = c
  BY <1>3, <1>5 DEF Composed2
<1>7. z \in Seq(S)
  BY <1>5 DEF Composed2
<1>8. z = <<a, b, c>>
  BY <1>6, <1>7
<1> QED BY <1>1, <1>4, <1>8

LEMMA TwoAndTwo ==
    ASSUME NEW a, NEW b, NEW c, NEW d
    PROVE  <<a, b>> \o <<c, d>> = <<a, b, c, d>>
<1>1. PICK x, y : x = <<a, b>> /\ y = <<c, d>>
  OBVIOUS
<1>2. PICK S : S = {a, b, c, d}
  OBVIOUS
<1>3. /\ x \in Seq(S) /\ y \in Seq(S) /\ Len(x) = 2 /\ Len(y) = 2
      /\ x[1] = a /\ x[2] = b /\ y[1] = c /\ y[2] = d
  BY <1>1, <1>2
<1>4. PICK z : z = x \o y
  OBVIOUS
<1>5. Composed2(S, z, x, y)
  BY <1>3, <1>4, ConcatOfTwo, Zenon
<1>6. Len(z) = 4 /\ z[1] = a /\ z[2] = b /\ z[3] = c /\ z[4] = d
  BY <1>3, <1>5 DEF Composed2
<1>7. z \in Seq(S)
  BY <1>5 DEF Composed2
<1>8. z = <<a, b, c, d>>
  BY <1>6, <1>7
<1> QED BY <1>1, <1>4, <1>8

\* Concatenation is associative.
LEMMA Associates ==
    ASSUME NEW C, NEW a \in Seq(C), NEW b \in Seq(C), NEW c \in Seq(C)
    PROVE  (a \o b) \o c = a \o (b \o c)
OBVIOUS

\* The characters that templates are written with.
LEMMA OperatorIsChar ==
    ASSUME NEW op \in {".", "/", "?", "&"}
    PROVE  op \in Chars /\ <<op>> \in Seq(Chars)
<1>1. op \in Chars
  BY Zenon DEF Chars, Reserved
<1> QED BY <1>1

LEMMA NameIsText ==
    ASSUME NEW n \in {"v", "w"}
    PROVE  <<n, "=">> \in Seq(Chars)
<1>1. n \in Chars
  BY Zenon DEF Chars
<1>2. "=" \in Chars
  BY Zenon DEF Chars, Reserved
<1> QED BY <1>1, <1>2

\* What a query starts with, taken together.
LEMMA QueryText ==
    ASSUME NEW op \in {"?", "&"}, NEW n \in {"v", "w"}, NEW e \in Seq(Chars)
    PROVE  /\ <<op, n, "=">> \in Seq(Chars)
           /\ <<op>> \o (<<n, "=">> \o e) = <<op, n, "=">> \o e
<1>1. PICK a \in Seq(Chars) : a = <<op>>
  BY OperatorIsChar
<1>2. PICK b \in Seq(Chars) : b = <<n, "=">>
  BY NameIsText
<1>3. a \o b = <<op, n, "=">>
  BY <1>1, <1>2, OneAndTwo
<1>4. a \o b \in Seq(Chars)
  BY ConcatProperties
<1>5. (a \o b) \o e = a \o (b \o e)
  BY Associates
<1> QED BY <1>1, <1>2, <1>3, <1>4, <1>5

\* The literal before the expression.
LEMMA LiteralText == <<"x", ":">> \in Seq(Chars)
<1>1. "x" \in Chars /\ ":" \in Chars
  BY Zenon DEF Chars
<1> QED BY <1>1

\* A template of a literal and an expression.
AfterLiteral(template, text, part, variables) ==
    /\ Expand(template, variables) = text \o Expanded(part, variables)
    /\ Pattern(template) = <<Text(text)>> \o PartToRegExp(part)

LEMMA IsAfterLiteral ==
    ASSUME NEW text, NEW part, NEW variables, NEW template, template = <<Literal(text), part>>
    PROVE  AfterLiteral(template, text, part, variables)
<1>1. /\ Len(template) = 2 /\ DOMAIN template = 1..2
      /\ template[1] = Literal(text) /\ template[2] = part
  OBVIOUS
<1>2. ~IsQuery(template[1]) /\ Expanded(template[1], variables) = text
  BY <1>1, ExpandLiteral
<1>3. PartToRegExp(template[1]) = <<Text(text)>>
  BY <1>1, LiteralPattern
<1>4. Expand(template, variables)
        = Expanded(template[1], variables) \o Expanded(template[2], variables)
  BY <1>1, <1>2, ExpandTwo, Zenon
<1>5. Pattern(template) = PartToRegExp(template[1]) \o PartToRegExp(template[2])
  BY <1>1, PatternTwo, Zenon
<1> QED BY <1>1, <1>2, <1>3, <1>4, <1>5 DEF AfterLiteral

\* The variables of a template with one name.
OneText(variables, n, t) ==
    /\ n \in DOMAIN variables /\ Len(variables[n]) = 1 /\ DOMAIN variables[n] = 1..1
    /\ variables[n][1] = t

LEMMA IsOneText == ASSUME NEW t, NEW vs, vs = [v |-> <<t>>] PROVE OneText(vs, "v", t)
BY DEF OneText

\* What RoundTrip says of one text.
FindsOne(template, t, op) ==
    Match(template, Expand(template, [v |-> <<t>>])) = {[v |-> <<EncodeValue(t, op)>>]}

\* One variable without an operator in the URI, after a literal.
LEMMA PlainFound ==
    ASSUME NEW t, NEW op, op \notin {"?", "&", ".", "/", "#"}, op # "literal", NEW class,
           PartToRegExp(Expression(op, <<"v">>, FALSE)) = <<Capture("v", class, FALSE)>>,
           EncodeValue(t, op) \in Seq(Chars), Accepts(class, EncodeValue(t, op)),
           NEW text \in Seq(Chars), NEW template,
           template = <<Literal(text), Expression(op, <<"v">>, FALSE)>>
    PROVE  FindsOne(template, t, op)
<1>1. PICK vs : vs = [v |-> <<t>>]
  OBVIOUS
<1>2. PICK part : part = Expression(op, <<"v">>, FALSE)
  OBVIOUS
<1>3. OneText(vs, "v", t)
  BY <1>1, IsOneText
<1>4. ForOne(part, op, "v", vs)
  BY <1>2, <1>3, IsForOne DEF OneText
<1>5. PICK e \in Seq(Chars) : e = EncodeValue(t, op)
  OBVIOUS
<1>6. Expanded(part, vs) = e
  <2>1. Expanded(part, vs) = <<>> \o Join(EncodedList(part, vs, "v"), ",")
    BY <1>4, ExpandPlain, Zenon
  <2>2. Join(EncodedList(part, vs, "v"), ",") = EncodeValue(vs["v"][1], part.operator)
    BY <1>3, JoinedOne, Zenon DEF OneText
  <2>3. EncodeValue(vs["v"][1], part.operator) = e
    BY <1>3, <1>4, <1>5, Zenon DEF OneText, ForOne
  <2>4. <<>> \o e = e
    OBVIOUS
  <2> QED BY <2>1, <2>2, <2>3, <2>4, Zenon
<1>7. AfterLiteral(template, text, part, vs)
  BY <1>2, IsAfterLiteral
<1>8. After(Expand(template, vs), text, e)
  BY <1>6, <1>7, Zenon DEF After, AfterLiteral
<1>9. OneGroup(Pattern(template), 2, text, Capture("v", class, FALSE))
  <2>1. PICK g : g = Capture("v", class, FALSE)
    OBVIOUS
  <2>2. Pattern(template) = <<Text(text)>> \o <<g>>
    BY <1>2, <1>7, <2>1 DEF AfterLiteral
  <2>3. Pattern(template) = <<Text(text), g>>
    BY <2>2, OneAndOne
  <2> QED BY <2>1, <2>3, OneGroupOfTwo
<1>10. OneMatches(template, 2, text, class, FALSE, e, Expand(template, vs))
  BY <1>5, <1>8, <1>9 DEF OneMatches
<1>11. MatchesOne(template, Expand(template, vs), FALSE, e)
  BY <1>10, MatchOne, Zenon
<1> QED BY <1>1, <1>5, <1>11 DEF FindsOne, MatchesOne

\* One variable that an operator starts, after a literal.
LEMMA PrefixedFound ==
    ASSUME NEW t \in Sample, NEW op \in {".", "/", "?", "&"}, NEW class,
           NEW prefix \in Seq(Chars),
           PartToRegExp(Expression(op, <<"v">>, FALSE))
              = <<Text(prefix), Capture("v", class, FALSE)>>,
           \A part, vs : ForOne(part, op, "v", vs) /\ OneText(vs, "v", t)
              => Expanded(part, vs) = prefix \o EncodeValue(t, op),
           EncodeValue(t, op) \in Seq(Chars), Accepts(class, EncodeValue(t, op)),
           NEW text \in Seq(Chars), NEW template,
           template = <<Literal(text), Expression(op, <<"v">>, FALSE)>>
    PROVE  FindsOne(template, t, op)
<1>1. PICK vs : vs = [v |-> <<t>>]
  OBVIOUS
<1>2. PICK part : part = Expression(op, <<"v">>, FALSE)
  OBVIOUS
<1>3. OneText(vs, "v", t)
  BY <1>1, IsOneText
<1>4. ForOne(part, op, "v", vs)
  BY <1>2, <1>3, IsForOne DEF OneText
<1>5. PICK e \in Seq(Chars) : e = EncodeValue(t, op)
  OBVIOUS
<1>6. Expanded(part, vs) = prefix \o e
  BY <1>3, <1>4, <1>5
<1>7. AfterLiteral(template, text, part, vs)
  BY <1>2, IsAfterLiteral
<1>8. After(Expand(template, vs), text \o prefix, e)
  <2>1. (text \o prefix) \o e = text \o (prefix \o e)
    BY Associates
  <2> QED BY <1>6, <1>7, <2>1 DEF After, AfterLiteral
<1>9. OneGroup(Pattern(template), 3, text \o prefix, Capture("v", class, FALSE))
  <2>1. PICK g : g = Capture("v", class, FALSE)
    OBVIOUS
  <2>2. Pattern(template) = <<Text(text)>> \o <<Text(prefix), g>>
    BY <1>2, <1>7, <2>1 DEF AfterLiteral
  <2>3. Pattern(template) = <<Text(text), Text(prefix), g>>
    BY <2>2, OneAndTwo
  <2> QED BY <2>1, <2>3, OneGroupOfThree
<1>10. text \o prefix \in Seq(Chars)
  BY ConcatProperties
<1>11. OneMatches(template, 3, text \o prefix, class, FALSE, e, Expand(template, vs))
  BY <1>5, <1>8, <1>9, <1>10 DEF OneMatches
<1>12. MatchesOne(template, Expand(template, vs), FALSE, e)
  BY <1>11, MatchOne, Zenon
<1> QED BY <1>1, <1>5, <1>12 DEF FindsOne, MatchesOne

\* The operator of an expression that has none.
NoOperator == ""

LEMMA NoOperatorIsOther ==
    NoOperator \notin {"?", "&", ".", "/", "#", "+"} /\ NoOperator # "literal"
BY Zenon DEF NoOperator

\* The pattern of an expression without an operator.
LEMMA TextPattern ==
    ASSUME NEW n
    PROVE  /\ PartToRegExp(Expression(NoOperator, <<n>>, FALSE))
                = <<Capture(n, "segment", FALSE)>>
           /\ PartToRegExp(Expression(NoOperator, <<n>>, TRUE))
                = <<Capture(n, "list", TRUE)>>
BY NoOperatorIsOther DEF PartToRegExp, Expression, IsQuery

LEMMA EncodedText == ASSUME NEW t \in Sample, NEW op PROVE EncodeValue(t, op) \in Texts
<1>1. CASE op \in {"+", "#"}
  <2>1. EncodeValue(t, op) = t
    BY <1>1 DEF EncodeValue
  <2> QED BY <2>1, SampleIsText, Zenon
<1>2. CASE op \notin {"+", "#"}
  BY <1>2, EncodedIsPlain, PlainIsText
<1> QED BY <1>1, <1>2, Zenon

\* The six operators, after a literal.
LEMMA SegmentFound ==
    ASSUME NEW t \in Sample, NEW text \in Seq(Chars), NEW template,
           template = <<Literal(text), Expression(NoOperator, <<"v">>, FALSE)>>
    PROVE  FindsOne(template, t, NoOperator)
<1>1. EncodeValue(t, NoOperator) \in Plain
  BY NoOperatorIsOther, EncodedIsPlain
<1>2. EncodeValue(t, NoOperator) \in Seq(Chars) /\ Accepts("segment", EncodeValue(t, NoOperator))
  BY <1>1, AcceptsPlain, PlainIsText
<1> QED BY <1>2, TextPattern, NoOperatorIsOther, PlainFound

LEMMA ReservedFound ==
    ASSUME NEW t \in Sample, NEW text \in Seq(Chars), NEW template,
           template = <<Literal(text), Expression("+", <<"v">>, FALSE)>>
    PROVE  FindsOne(template, t, "+")
<1>1. EncodeValue(t, "+") \in Seq(Chars) /\ Accepts("any", EncodeValue(t, "+"))
  BY EncodedText, AcceptsAny, PlainIsText
<1> QED BY <1>1, AnyPattern, PlainFound

LEMMA PathFound ==
    ASSUME NEW t \in Sample, NEW op \in {".", "/"}, NEW text \in Seq(Chars), NEW template,
           template = <<Literal(text), Expression(op, <<"v">>, FALSE)>>
    PROVE  FindsOne(template, t, op)
<1>1. EncodeValue(t, op) \in Plain
  BY EncodedIsPlain
<1>2. EncodeValue(t, op) \in Seq(Chars) /\ Accepts("segment", EncodeValue(t, op))
  BY <1>1, AcceptsPlain, PlainIsText
<1>3. ASSUME NEW part, NEW vs, ForOne(part, op, "v", vs), OneText(vs, "v", t)
      PROVE  Expanded(part, vs) = <<op>> \o EncodeValue(t, op)
  BY <1>3, ExpandPath DEF OneText
<1>4. <<op>> \in Seq(Chars)
  BY OperatorIsChar
<1>5. PartToRegExp(Expression(op, <<"v">>, FALSE))
        = <<Text(<<op>>), Capture("v", "segment", FALSE)>>
  BY PathPattern
<1> QED BY <1>2, <1>3, <1>4, <1>5, PrefixedFound

LEMMA QueryFound ==
    ASSUME NEW t \in Sample, NEW op \in {"?", "&"}, NEW text \in Seq(Chars), NEW template,
           template = <<Literal(text), Expression(op, <<"v">>, FALSE)>>
    PROVE  FindsOne(template, t, op)
<1>1. EncodeValue(t, op) \in Plain
  BY EncodedIsPlain
<1>2. EncodeValue(t, op) \in Seq(Chars) /\ Accepts("query", EncodeValue(t, op))
  BY <1>1, AcceptsPlain, PlainIsText
<1>3. ASSUME NEW part, NEW vs, ForOne(part, op, "v", vs), OneText(vs, "v", t)
      PROVE  Expanded(part, vs) = <<op, "v", "=">> \o EncodeValue(t, op)
  <2>1. Expanded(part, vs) = <<op>> \o (<<"v", "=">> \o EncodeValue(t, op))
    BY <1>3, ExpandQuery DEF OneText
  <2> QED BY <1>2, <2>1, QueryText
<1>4. <<op, "v", "=">> \in Seq(Chars)
  BY <1>2, QueryText
<1>5. PartToRegExp(Expression(op, <<"v">>, FALSE))
        = <<Text(<<op, "v", "=">>), Capture("v", "query", FALSE)>>
  BY QueryPattern
<1> QED BY <1>2, <1>3, <1>4, <1>5, PrefixedFound

\* What RoundTrip says of two texts and of a list of them.
FindsTwo(template, t, u) ==
    Match(template, Expand(template, [v |-> <<t>>, w |-> <<u>>]))
      = {[v |-> <<EncodeValue(t, NoOperator)>>, w |-> <<EncodeValue(u, NoOperator)>>]}

FindsList(template, t, u) ==
    Match(template, Expand(template, [v |-> <<t, u>>]))
      = {[v |-> <<EncodeValue(t, NoOperator), EncodeValue(u, NoOperator)>>]}

\* An operator that escapes does so like any other.
LEMMA EncodedAlike ==
    ASSUME NEW t, NEW op, op \notin {"+", "#"}
    PROVE  EncodeValue(t, op) = EncodeValue(t, NoOperator)
BY NoOperatorIsOther DEF EncodeValue

LEMMA AreTwoTexts ==
    ASSUME NEW t, NEW u, NEW vs, vs = [v |-> <<t>>, w |-> <<u>>]
    PROVE  OneText(vs, "v", t) /\ OneText(vs, "w", u)
BY DEF OneText

\* An expression without an operator is the encoded text itself.
LEMMA ExpandText ==
    ASSUME NEW n, NEW exploded, NEW vs, NEW part, part = Expression(NoOperator, <<n>>, exploded),
           n \in DOMAIN vs
    PROVE  /\ ForOne(part, NoOperator, n, vs) /\ part.operator = NoOperator /\ ~IsQuery(part)
           /\ Expanded(part, vs) = <<>> \o Join(EncodedList(part, vs, n), ",")
<1>1. ForOne(part, NoOperator, n, vs)
  BY NoOperatorIsOther, IsForOne
<1>2. Expanded(part, vs) = <<>> \o Join(EncodedList(part, vs, n), ",")
  BY <1>1, NoOperatorIsOther, ExpandPlain
<1>3. part.operator = NoOperator
  BY <1>1 DEF ForOne
<1>4. ~IsQuery(part)
  BY <1>3, NoOperatorIsOther DEF IsQuery
<1> QED BY <1>1, <1>2, <1>3, <1>4, Zenon

LEMMA ExpandOneText ==
    ASSUME NEW n, NEW t \in Sample, NEW vs, OneText(vs, n, t),
           NEW part, part = Expression(NoOperator, <<n>>, FALSE)
    PROVE  Expanded(part, vs) = EncodeValue(t, NoOperator) /\ ~IsQuery(part)
<1>1. /\ part.operator = NoOperator /\ ~IsQuery(part)
      /\ Expanded(part, vs) = <<>> \o Join(EncodedList(part, vs, n), ",")
  BY ExpandText, Zenon DEF OneText
<1>2. Join(EncodedList(part, vs, n), ",") = EncodeValue(vs[n][1], part.operator)
  BY JoinedOne, Zenon DEF OneText
<1>3. vs[n][1] = t
  BY DEF OneText
<1>4. EncodeValue(t, NoOperator) \in Seq(Chars)
  BY EncodedText, PlainIsText
<1>5. <<>> \o EncodeValue(t, NoOperator) = EncodeValue(t, NoOperator)
  BY <1>4
<1> QED BY <1>1, <1>2, <1>3, <1>5, Zenon

\* What is between two texts.
LEMMA ReservedSeparates ==
    ASSUME NEW a \in Plain, NEW b \in Plain, NEW m \in Seq(Chars), m # <<>>,
           m[1] \in Reserved, \A i \in 2..Len(m) : m[i] # m[1]
    PROVE  Separates(m, Chars, a, b)
<1>1. ToSet(a) \cap Reserved = {} /\ ToSet(b) \cap Reserved = {}
  BY DEF Plain
<1> QED BY <1>1 DEF Separates

LEMMA ThreeOnes ==
    ASSUME NEW a, NEW b, NEW c
    PROVE  (<<a>> \o <<b>>) \o <<c>> = <<a, b, c>>
<1>1. <<a>> \o <<b>> = <<a, b>>
  BY OneAndOne
<1>2. <<a, b>> \o <<c>> = <<a, b, c>>
  BY TwoAndOne
<1> QED BY <1>1, <1>2

\* Two path segments.
LEMMA SegmentsFound ==
    ASSUME NEW t \in Sample, NEW u \in Sample, NEW text, text = <<"/">>, NEW template,
           template = <<Expression(NoOperator, <<"v">>, FALSE), Literal(text),
                        Expression(NoOperator, <<"w">>, FALSE)>>
    PROVE  FindsTwo(template, t, u)
<1>1. PICK vs : vs = [v |-> <<t>>, w |-> <<u>>]
  OBVIOUS
<1>2. PICK p, q : /\ p = Expression(NoOperator, <<"v">>, FALSE)
                  /\ q = Expression(NoOperator, <<"w">>, FALSE)
  OBVIOUS
<1>3. PICK a, b : a = EncodeValue(t, NoOperator) /\ b = EncodeValue(u, NoOperator)
  OBVIOUS
<1>4. a \in Plain /\ b \in Plain
  BY <1>3, NoOperatorIsOther, EncodedIsPlain
<1>5. a \in Seq(Chars) /\ b \in Seq(Chars) /\ Accepts("segment", a) /\ Accepts("segment", b)
  BY <1>4, PlainIsText, AcceptsPlain
<1>6. text \in Seq(Chars) /\ text # <<>> /\ text[1] = "/" /\ Len(text) = 1
  BY OperatorIsChar
<1>7. Separates(text, Chars, a, b)
  <2>1. text[1] \in Reserved
    BY <1>6, CommaIsChar
  <2>2. \A i \in 2..Len(text) : text[i] # text[1]
    BY <1>6
  <2> QED BY <1>4, <1>6, <2>1, <2>2, ReservedSeparates
<1>8. OneText(vs, "v", t) /\ OneText(vs, "w", u)
  BY <1>1, AreTwoTexts
<1>9. Expanded(p, vs) = a /\ Expanded(q, vs) = b /\ ~IsQuery(p)
  BY <1>2, <1>3, <1>8, ExpandOneText
<1>10. /\ Len(template) = 3 /\ DOMAIN template = 1..3
       /\ template[1] = p /\ template[2] = Literal(text) /\ template[3] = q
  BY <1>2
<1>11. Expand(template, vs) = (a \o text) \o b
  <2>1. ~IsQuery(template[1]) /\ ~IsQuery(template[2]) /\ Expanded(template[2], vs) = text
    BY <1>9, <1>10, ExpandLiteral
  <2>2. Expand(template, vs)
          = (Expanded(template[1], vs) \o Expanded(template[2], vs)) \o Expanded(template[3], vs)
    BY <1>10, <2>1, ExpandThree, Zenon
  <2> QED BY <1>9, <1>10, <2>1, <2>2
<1>12. PICK none : none = <<>>
  OBVIOUS
<1>13. none \in Seq(Chars)
  BY <1>12
<1>14. Around(Expand(template, vs), none, a, text, b)
  <2>1. none \o a = a
    BY <1>5, <1>12
  <2> QED BY <1>11, <2>1 DEF Around
<1>15. TwoGroups(Pattern(template), 1, 3, none, text, Capture("v", "segment", FALSE),
                 Capture("w", "segment", FALSE))
  <2>1. PICK g, h : g = Capture("v", "segment", FALSE) /\ h = Capture("w", "segment", FALSE)
    OBVIOUS
  <2>2. PartToRegExp(p) = <<g>> /\ PartToRegExp(q) = <<h>>
    BY <1>2, <2>1, TextPattern
  <2>3. PartToRegExp(template[2]) = <<Text(text)>>
    BY <1>10, LiteralPattern
  <2>4. Pattern(template) = (<<g>> \o <<Text(text)>>) \o <<h>>
    BY <1>10, <2>2, <2>3, PatternThree
  <2>5. Pattern(template) = <<g, Text(text), h>>
    BY <2>4, ThreeOnes, Zenon
  <2> QED BY <1>12, <2>1, <2>5, TwoGroupsOfThree
<1>16. TwoMatch(template, 1, 3, none, text, "segment", "segment", a, b, Expand(template, vs))
  <2>1. 1 \in Nat /\ 3 \in Nat /\ 1 # 3
    OBVIOUS
  <2> QED BY <1>5, <1>7, <1>14, <1>15, <1>13, <2>1, Zenon DEF TwoMatch
<1>17. MatchesTwo(template, Expand(template, vs), a, b)
  BY <1>16, MatchTwo
<1> QED BY <1>1, <1>3, <1>17 DEF MatchesTwo, FindsTwo

\* A path segment and a query.
LEMMA PathThenQueryFound ==
    ASSUME NEW t \in Sample, NEW u \in Sample, NEW template,
           template = <<Expression("/", <<"v">>, FALSE), Expression("?", <<"w">>, FALSE)>>
    PROVE  FindsTwo(template, t, u)
<1>1. PICK vs : vs = [v |-> <<t>>, w |-> <<u>>]
  OBVIOUS
<1>2. PICK p, q : p = Expression("/", <<"v">>, FALSE) /\ q = Expression("?", <<"w">>, FALSE)
  OBVIOUS
<1>3. PICK a, b : a = EncodeValue(t, NoOperator) /\ b = EncodeValue(u, NoOperator)
  OBVIOUS
<1>4. a \in Plain /\ b \in Plain
  BY <1>3, NoOperatorIsOther, EncodedIsPlain
<1>5. a \in Seq(Chars) /\ b \in Seq(Chars) /\ Accepts("segment", a) /\ Accepts("query", b)
  BY <1>4, PlainIsText, AcceptsPlain
<1>6. PICK slash \in Seq(Chars) : slash = <<"/">>
  BY OperatorIsChar
<1>7. PICK text \in Seq(Chars) : text = <<"?", "w", "=">>
  BY <1>5, QueryText
<1>8. Separates(text, Chars, a, b)
  <2>1. "?" \in Reserved
    BY Zenon DEF Reserved
  <2>2. /\ text # <<>> /\ text[1] = "?" /\ text[2] = "w" /\ text[3] = "=" /\ Len(text) = 3
    BY <1>7
  <2>3. \A i \in 2..Len(text) : text[i] # text[1]
    BY <2>2
  <2> QED BY <1>4, <2>1, <2>2, <2>3, ReservedSeparates
<1>9. OneText(vs, "v", t) /\ OneText(vs, "w", u)
  BY <1>1, AreTwoTexts
<1>10. Expanded(p, vs) = slash \o a /\ ~IsQuery(p)
  <2>1. ForOne(p, "/", "v", vs)
    BY <1>2, <1>9, IsForOne DEF OneText
  <2>2. Expanded(p, vs) = <<"/">> \o EncodeValue(t, "/")
    BY <1>9, <2>1, ExpandPath DEF OneText
  <2>3. EncodeValue(t, "/") = a
    BY <1>3, EncodedAlike
  <2>4. ~IsQuery(p)
    BY <2>1 DEF ForOne, IsQuery
  <2> QED BY <1>6, <2>2, <2>3, <2>4
<1>11. Expanded(q, vs) = text \o b
  <2>1. ForOne(q, "?", "w", vs)
    BY <1>2, <1>9, IsForOne DEF OneText
  <2>2. Expanded(q, vs) = <<"?">> \o (<<"w", "=">> \o EncodeValue(u, "?"))
    BY <1>9, <2>1, ExpandQuery DEF OneText
  <2>3. EncodeValue(u, "?") = b
    BY <1>3, EncodedAlike
  <2>4. <<"?">> \o (<<"w", "=">> \o b) = <<"?", "w", "=">> \o b
    BY <1>5, QueryText
  <2> QED BY <1>7, <2>2, <2>3, <2>4
<1>12. /\ Len(template) = 2 /\ DOMAIN template = 1..2
       /\ template[1] = p /\ template[2] = q
  BY <1>2
<1>13. Around(Expand(template, vs), slash, a, text, b)
  <2>1. Expand(template, vs) = Expanded(template[1], vs) \o Expanded(template[2], vs)
    BY <1>10, <1>12, ExpandTwo
  <2>2. PICK c \in Seq(Chars) : c = slash \o a
    BY <1>5, ConcatProperties
  <2>3. (c \o text) \o b = c \o (text \o b)
    BY <1>5, Associates
  <2> QED BY <1>10, <1>11, <1>12, <2>1, <2>2, <2>3 DEF Around
<1>14. TwoGroups(Pattern(template), 2, 4, slash, text, Capture("v", "segment", FALSE),
                 Capture("w", "query", FALSE))
  <2>1. PICK g, h : g = Capture("v", "segment", FALSE) /\ h = Capture("w", "query", FALSE)
    OBVIOUS
  <2>2. PartToRegExp(p) = <<Text(slash), g>>
    BY <1>2, <1>6, <2>1, PathPattern
  <2>3. PartToRegExp(q) = <<Text(text), h>>
    BY <1>2, <1>7, <2>1, QueryPattern
  <2>4. Pattern(template) = <<Text(slash), g>> \o <<Text(text), h>>
    BY <1>12, <2>2, <2>3, PatternTwo
  <2>5. Pattern(template) = <<Text(slash), g, Text(text), h>>
    BY <2>4, TwoAndTwo, Zenon
  <2> QED BY <2>1, <2>5, TwoGroupsOfFour
<1>15. TwoMatch(template, 2, 4, slash, text, "segment", "query", a, b, Expand(template, vs))
  <2>1. 2 \in Nat /\ 4 \in Nat /\ 2 # 4
    OBVIOUS
  <2> QED BY <1>5, <1>8, <1>13, <1>14, <2>1, Zenon DEF TwoMatch
<1>16. MatchesTwo(template, Expand(template, vs), a, b)
  BY <1>15, MatchTwo
<1> QED BY <1>1, <1>3, <1>16 DEF MatchesTwo, FindsTwo

\* A list of two, after a literal.
LEMMA ListFound ==
    ASSUME NEW t \in Sample, NEW u \in Sample, NEW text \in Seq(Chars), NEW template,
           template = <<Literal(text), Expression(NoOperator, <<"v">>, TRUE)>>
    PROVE  FindsList(template, t, u)
<1>1. PICK vs : vs = [v |-> <<t, u>>]
  OBVIOUS
<1>2. PICK part : part = Expression(NoOperator, <<"v">>, TRUE)
  OBVIOUS
<1>3. PICK a, b : a = EncodeValue(t, NoOperator) /\ b = EncodeValue(u, NoOperator)
  OBVIOUS
<1>4. a \in Plain /\ b \in Plain
  BY <1>3, NoOperatorIsOther, EncodedIsPlain
<1>5. /\ "v" \in DOMAIN vs /\ Len(vs["v"]) = 2 /\ DOMAIN vs["v"] = 1..2
      /\ vs["v"][1] = t /\ vs["v"][2] = u
  BY <1>1
<1>6. PICK s : Listed(s, a, b)
  BY DEF Listed
<1>7. Accepts("list", s) /\ s \in Seq(Chars)
  BY <1>4, <1>6, AcceptsListed
<1>8. Split(s) = <<a, b>>
  BY <1>4, <1>6, SplitListed
<1>9. Expanded(part, vs) = s
  <2>1. /\ part.operator = NoOperator
        /\ Expanded(part, vs) = <<>> \o Join(EncodedList(part, vs, "v"), ",")
    BY <1>2, <1>5, ExpandText, Zenon
  <2>2. Join(EncodedList(part, vs, "v"), Comma)
          = EncodeValue(vs["v"][1], part.operator)
              \o (<<Comma>> \o EncodeValue(vs["v"][2], part.operator))
    BY <1>5, JoinedTwo, Zenon
  <2>3. Join(EncodedList(part, vs, "v"), Comma) = s
    BY <1>3, <1>5, <1>6, <2>1, <2>2, Zenon DEF Listed
  <2>4. Join(EncodedList(part, vs, "v"), ",") = s
    BY <2>3, Zenon DEF Comma
  <2>5. <<>> \o s = s
    BY <1>7
  <2> QED BY <2>1, <2>4, <2>5, Zenon
<1>10. AfterLiteral(template, text, part, vs)
  BY <1>2, IsAfterLiteral
<1>11. After(Expand(template, vs), text, s)
  BY <1>9, <1>10, Zenon DEF After, AfterLiteral
<1>12. OneGroup(Pattern(template), 2, text, Capture("v", "list", TRUE))
  <2>1. PICK g : g = Capture("v", "list", TRUE)
    OBVIOUS
  <2>2. Pattern(template) = <<Text(text)>> \o <<g>>
    BY <1>2, <1>10, <2>1, TextPattern DEF AfterLiteral
  <2>3. Pattern(template) = <<Text(text), g>>
    BY <2>2, OneAndOne
  <2> QED BY <2>1, <2>3, OneGroupOfTwo
<1>13. OneMatches(template, 2, text, "list", TRUE, s, Expand(template, vs))
  BY <1>7, <1>11, <1>12 DEF OneMatches
<1>14. MatchesOne(template, Expand(template, vs), TRUE, s)
  BY <1>13, MatchOne, Zenon
<1> QED BY <1>1, <1>3, <1>8, <1>14 DEF FindsList, MatchesOne

LEMMA ShortLiteralText == <<"x">> \in Seq(Chars)
<1>1. "x" \in Chars
  BY Zenon DEF Chars
<1> QED BY <1>1

\* Each template that TLC tries, for every sample of texts and every escaping that
\* leaves nothing reserved: match() finds what expand() was given, and only that.
THEOREM RoundTripHolds == RoundTrip
<1>1. ASSUME NEW t \in Sample, NEW op \in {"", "+", ".", "/", "?", "&"}
      PROVE  FindsOne(<<Literal(<<"x", ":">>), Expression(op, <<"v">>, FALSE)>>, t, op)
  <2>1. PICK text \in Seq(Chars) : text = <<"x", ":">>
    BY LiteralText, Zenon
  <2>2. PICK template : template = <<Literal(text), Expression(op, <<"v">>, FALSE)>>
    BY Zenon
  <2>3. \/ op = NoOperator \/ op = "+" \/ op \in {".", "/"} \/ op \in {"?", "&"}
    BY Zenon DEF NoOperator
  <2>4. FindsOne(template, t, op)
    BY <2>2, <2>3, SegmentFound, ReservedFound, PathFound, QueryFound, Zenon
  <2> QED BY <2>1, <2>2, <2>4, Zenon
<1>2. ASSUME NEW t \in Sample, NEW u \in Sample
      PROVE  FindsTwo(<<Expression("", <<"v">>, FALSE), Literal(<<"/">>),
                        Expression("", <<"w">>, FALSE)>>, t, u)
  <2>1. PICK text : text = <<"/">>
    BY Zenon
  <2>2. PICK template : template = <<Expression(NoOperator, <<"v">>, FALSE), Literal(text),
                                     Expression(NoOperator, <<"w">>, FALSE)>>
    BY Zenon
  <2>3. FindsTwo(template, t, u)
    BY <2>1, <2>2, SegmentsFound, Zenon
  <2> QED BY <2>1, <2>2, <2>3, Zenon DEF NoOperator
<1>3. ASSUME NEW t \in Sample, NEW u \in Sample
      PROVE  FindsTwo(<<Expression("/", <<"v">>, FALSE), Expression("?", <<"w">>, FALSE)>>, t, u)
  BY PathThenQueryFound, Zenon
<1>4. ASSUME NEW t \in Sample, NEW u \in Sample
      PROVE  FindsList(<<Literal(<<"x">>), Expression("", <<"v">>, TRUE)>>, t, u)
  <2>1. PICK text \in Seq(Chars) : text = <<"x">>
    BY ShortLiteralText, Zenon
  <2>2. PICK template : template = <<Literal(text), Expression(NoOperator, <<"v">>, TRUE)>>
    BY Zenon
  <2>3. FindsList(template, t, u)
    BY <2>1, <2>2, ListFound, Zenon
  <2> QED BY <2>1, <2>2, <2>3, Zenon DEF NoOperator
<1> QED BY <1>1, <1>2, <1>3, <1>4, Zenon DEF RoundTrip, FindsOne, FindsTwo, FindsList, NoOperator
=============================================================================
