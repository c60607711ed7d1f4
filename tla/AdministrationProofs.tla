-------------------------- MODULE AdministrationProofs --------------------------
(***************************************************************************)
(* What Administration promises for any number of members, roles, tools and        *)
(* override keys, any commands at a time and any order of their steps.               *)
(***************************************************************************)
EXTENDS Administration, TLAPS

\* Only a set is looked up first, and only an update is checked twice.
StageInv == \A c \in Slots : (At(c, "looked") => Kind(c) = "set") /\ (At(c, "checked") => Kind(c) = "update")

\* The bot's newest key is one more than the deployments so far.
TypeInv == TypeOK /\ StageInv /\ sealKey <= changes + 1

Stages == {"issued", "looked", "resolved", "outsider", "granted", "checked"}

\* What the arguments of a command are, by its kind.
LEMMA RequestArgs ==
    ASSUME NEW q \in Requests
    PROVE  /\ q.kind = "role" => q.arg[2] \in Roles
           /\ q.kind = "invite" => q.arg[2] \in Members
           /\ q.kind = "set" => q.arg[1] \in Keys /\ q.arg[2] \in Values
           /\ q.kind = "update" =>
                \/ q.arg[1] = "source" /\ q.arg[2] \in {"none", "regex"}
                \/ q.arg[1] = "pattern" /\ q.arg[2] \in {"group", "plain"}
                \/ q.arg[1] = "names" /\ q.arg[2] \in Keys
                \/ q.arg[1] = "enabled" /\ q.arg[2] \in {"yes", "no"}
           /\ q.kind \in {"init", "map", "alias", "host", "lifecycle", "send", "message",
                          "role", "invite", "set", "clear", "update"}
BY DEF Requests, Request, NoArg

\* A command keeps its sender, roles and request while it moves on.
LEMMA CallMoves ==
    ASSUME NEW x \in Calls, NEW s \in Stages
    PROVE  /\ [x EXCEPT !.stage = s] \in Calls
           /\ [x EXCEPT !.stage = s].stage = s
           /\ [x EXCEPT !.stage = s].by = x.by /\ [x EXCEPT !.stage = s].held = x.held
           /\ [x EXCEPT !.stage = s].req = x.req /\ [x EXCEPT !.stage = s].late = x.late
BY DEF Calls, Stages

\* A command in progress is one of Calls, and only those are.
LEMMA ActiveCalls ==
    ASSUME TypeOK, NEW c \in Slots
    PROVE  /\ c \in Active => calls[c] \in Calls
           /\ calls[c].stage # "idle" => c \in Active
           /\ c \in Active => calls[c].stage \in Stages
BY DEF TypeOK, Calls, Idle, Active, Stages

\* An update gives a definition again.
LEMMA UpdatedIsTool ==
    ASSUME TypeOK, NEW c \in Slots, c \in Active, Kind(c) = "update"
    PROVE  Result(c) \in Tools /\ tool.names \subseteq Result(c).names
<1>1. calls[c].req \in Requests
  BY ActiveCalls DEF Calls
<1>2. \/ calls[c].req.arg[1] = "source" /\ calls[c].req.arg[2] \in {"none", "regex"}
      \/ calls[c].req.arg[1] = "pattern" /\ calls[c].req.arg[2] \in {"group", "plain"}
      \/ calls[c].req.arg[1] = "names" /\ calls[c].req.arg[2] \in Keys
      \/ calls[c].req.arg[1] = "enabled" /\ calls[c].req.arg[2] \in {"yes", "no"}
  BY <1>1, RequestArgs DEF Kind
<1>3. tool \in Tools
  BY DEF TypeOK
<1> QED
  BY <1>2, <1>3 DEF Result, Updated, Tools

\* What the history records has its type.
LEMMA WitnessTypes ==
    ASSUME TypeOK, Witness, override' \in [Keys -> [value : Values, seal : Seals] \cup {None}]
    PROVE  /\ entitled' \subseteq Slots /\ credible' \subseteq Slots /\ deprived' \subseteq Slots
           /\ offered' \in [Keys -> SUBSET (Values \cup {None})]
<1>1. entitled' \subseteq Slots /\ credible' \subseteq Slots /\ deprived' \subseteq Slots
  BY DEF Witness, Active
<1>2. ASSUME NEW k \in Keys PROVE Offer(k)' \subseteq Values \cup {None}
  BY <1>2 DEF Offer
<1>3. offered' \in [Keys -> SUBSET (Values \cup {None})]
  BY <1>2 DEF Witness, TypeOK
<1> QED
  BY <1>1, <1>3

\* One command moves on, the others stay.
LEMMA GotoMoves ==
    ASSUME TypeOK, NEW c \in Slots, c \in Active, NEW s \in Stages, Goto(c, s)
    PROVE  /\ calls' \in [Slots -> Calls \cup {Idle}]
           /\ calls'[c].stage = s /\ calls'[c].req = calls[c].req /\ calls'[c].late = calls[c].late
           /\ calls'[c].by = calls[c].by /\ calls'[c].held = calls[c].held
           /\ \A d \in Slots \ {c} : calls'[d] = calls[d]
<1>1. calls \in [Slots -> Calls \cup {Idle}] /\ calls[c] \in Calls
  BY ActiveCalls DEF TypeOK
<1>2. calls' = [calls EXCEPT ![c] = [calls[c] EXCEPT !.stage = s]]
  BY DEF Goto
<1>3. calls'[c] = [calls[c] EXCEPT !.stage = s] /\ \A d \in Slots \ {c} : calls'[d] = calls[d]
  BY <1>1, <1>2
<1>4. [calls[c] EXCEPT !.stage = s] \in Calls
  BY <1>1, CallMoves
<1>5. calls' \in [Slots -> Calls \cup {Idle}]
  BY <1>1, <1>2, <1>4
<1> QED
  BY <1>1, <1>3, <1>5, CallMoves

\* One command is over, the others stay.
LEMMA OverEnds ==
    ASSUME TypeOK, NEW c \in Slots, Over(c)
    PROVE  /\ calls' \in [Slots -> Calls \cup {Idle}]
           /\ calls'[c].stage = "idle" /\ \A d \in Slots \ {c} : calls'[d] = calls[d]
BY DEF TypeOK, Over, Idle

\* The start is well typed.
LEMMA TypeInit == Init => TypeInv
<1> SUFFICES ASSUME Init PROVE TypeInv
  OBVIOUS
<1> USE AdministrationAssumption DEF AdministrationAssumption
<1>1. sealKey \in Seals \ {0} /\ openKeys \subseteq Seals /\ sealKey <= changes + 1
  BY DEF Init, Seals
<1>2. tool \in Tools /\ roles \in [Members -> SUBSET Roles]
  BY DEF Init
<1>3. offered \in [Keys -> SUBSET (Values \cup {None})]
      /\ override \in [Keys -> [value : Values, seal : Seals] \cup {None}]
  BY DEF Init
<1>4. calls \in [Slots -> Calls \cup {Idle}] /\ turn \in Turns \cup {Resting}
  BY DEF Init
<1>5. /\ policy \in Roles \cup {None, "unset"} /\ invited \subseteq Members
      /\ entitled \subseteq Slots /\ credible \subseteq Slots /\ deprived \subseteq Slots
      /\ managed \in BOOLEAN /\ skewed \in BOOLEAN
  BY DEF Init
<1>6. issued \in 0..MaxCalls /\ changes \in 0..MaxOutside
  BY DEF Init
<1>7. StageInv
  BY DEF Init, StageInv, At, Idle
<1> QED
  BY <1>1, <1>2, <1>3, <1>4, <1>5, <1>6, <1>7 DEF TypeInv, TypeOK
\* A command's steps change the calls as GotoMoves and OverEnds say and, with one
\* exception each, nothing else.
LEMMA CommandTypes ==
    ASSUME TypeInv, NEW c \in Slots, Command(c)
    PROVE  TypeInv'
<1> USE AdministrationAssumption DEF AdministrationAssumption, TypeInv
<1>0. ASSUME calls'[c].stage \in {"idle", "issued"}, \A d \in Slots \ {c} : calls'[d] = calls[d]
      PROVE  StageInv'
  BY <1>0 DEF StageInv, At, Kind
<1>1. CASE Give(c)
  <2>1. calls' \in [Slots -> Calls \cup {Idle}]
    <3>1. PICK m \in Members, q \in Requests :
            calls' = [calls EXCEPT ![c] = [by |-> m, held |-> roles[m], req |-> q,
                                           late |-> FALSE, stage |-> "issued"]]
      BY <1>1 DEF Give
    <3>2. [by |-> m, held |-> roles[m], req |-> q, late |-> FALSE, stage |-> "issued"] \in Calls
      BY DEF TypeOK, Calls
    <3> QED
      BY <3>1, <3>2 DEF TypeOK
  <2>2. calls'[c].stage = "issued" /\ \A d \in Slots \ {c} : calls'[d] = calls[d]
    BY <1>1 DEF Give, TypeOK
  <2>3. StageInv'
    BY <1>0, <2>2
  <2> QED
    BY <1>1, <2>1, <2>3, WitnessTypes DEF Give, TypeOK, stored, outside
<1>2. ASSUME NEW s \in Stages, c \in Active, Goto(c, s), Reads,
             s = "looked" => Kind(c) = "set", s = "checked" => Kind(c) = "update"
      PROVE  TypeInv'
  <2>1. StageInv'
    BY <1>2, GotoMoves DEF StageInv, At, Kind
  <2> QED
    BY <1>2, <2>1, GotoMoves, WitnessTypes DEF Reads, TypeOK, stored, outside
<1>3. CASE Resolve(c) \/ LookUp(c) \/ AskAdmin(c) \/ Admit(c) \/ CheckUpdate(c)
  BY <1>2, <1>3, ActiveCalls DEF Resolve, LookUp, AskAdmin, Admit, CheckUpdate, Granted, At, Stages
<1>3a. ASSUME Over(c) PROVE StageInv'
  BY <1>0, <1>3a, OverEnds
<1>4. CASE GiveUp(c) \/ ActElsewhere(c)
  BY <1>4, <1>3a, OverEnds, WitnessTypes DEF GiveUp, ActElsewhere, Reads, TypeOK, stored, outside
<1>5. CASE InitPolicy(c)
  BY <1>5, <1>3a, OverEnds, WitnessTypes DEF InitPolicy, FirstRow, TypeOK, outside
<1>6. ASSUME At(c, "granted") PROVE calls[c].req \in Requests /\ By(c) \in Members /\ c \in Active
  BY <1>6, ActiveCalls DEF At, By, Calls, Active
<1>7. CASE SetRole(c)
  <2>1. calls[c].req.arg[2] \in Roles
    BY <1>6, <1>7, RequestArgs DEF SetRole, Kind
  <2> QED
    BY <1>7, <2>1, <1>3a, OverEnds, WitnessTypes DEF SetRole, TypeOK, outside
<1>8. CASE Invite(c)
  <2>1. calls[c].req.arg[2] \in Members
    BY <1>6, <1>8, RequestArgs DEF Invite, Kind
  <2> QED
    BY <1>8, <2>1, <1>3a, OverEnds, WitnessTypes DEF Invite, TypeOK, outside
<1>9. CASE SetOverride(c)
  <2>1. calls[c].req.arg[1] \in Keys /\ calls[c].req.arg[2] \in Values
    BY <1>6, <1>9, RequestArgs DEF SetOverride, Kind
  <2>2. (IF calls[c].req.arg[1] \in Secrets THEN sealKey ELSE 0) \in Seals
    BY DEF TypeOK, Seals
  <2>3. override' \in [Keys -> [value : Values, seal : Seals] \cup {None}]
    BY <1>9, <2>1, <2>2 DEF SetOverride, TypeOK
  <2> QED
    BY <1>9, <2>3, <1>3a, OverEnds, WitnessTypes DEF SetOverride, TypeOK, outside
<1>10. CASE ClearOverride(c)
  <2>1. override' \in [Keys -> [value : Values, seal : Seals] \cup {None}]
    BY <1>10 DEF ClearOverride, TypeOK
  <2> QED
    BY <1>10, <2>1, <1>3a, OverEnds, WitnessTypes DEF ClearOverride, TypeOK, outside
<1>11. CASE ApplyUpdate(c)
  <2>1. Kind(c) = "update" /\ c \in Active
    BY <1>11, ActiveCalls DEF ApplyUpdate, StageInv, At, Active
  <2>2. tool' \in Tools
    BY <1>11, <2>1, UpdatedIsTool DEF ApplyUpdate
  <2>3. calls' \in [Slots -> Calls \cup {Idle}]
    <3>1. ASSUME NEW d \in Slots, At(d, "checked")
          PROVE  [calls[d] EXCEPT !.late = TRUE] \in Calls
      <4>1. calls[d] \in Calls
        BY <3>1, ActiveCalls DEF At
      <4> QED
        BY <4>1 DEF Calls
    <3> QED
      BY <1>11, <3>1 DEF ApplyUpdate, TypeOK
  <2>4. StageInv'
    <3>1. ASSUME NEW d \in Slots PROVE \/ calls'[d].stage = "idle"
                                       \/ calls'[d].stage = calls[d].stage /\ calls'[d].req = calls[d].req
      <4>1. CASE d # c /\ At(d, "checked")
        <5>1. calls[d] \in Calls
          BY <4>1, ActiveCalls DEF At
        <5> QED
          BY <1>11, <4>1, <5>1 DEF ApplyUpdate, Calls
      <4> QED
        BY <1>11, <4>1 DEF ApplyUpdate, Idle
    <3> QED
      BY <3>1 DEF StageInv, At, Kind
  <2>5. skewed' \in BOOLEAN
    BY <1>11, <2>1, ActiveCalls DEF ApplyUpdate, TypeOK, Calls
  <2> QED
    BY <1>11, <2>2, <2>3, <2>4, <2>5, WitnessTypes DEF ApplyUpdate, TypeOK, outside
<1> QED
  BY <1>1, <1>3, <1>4, <1>5, <1>7, <1>8, <1>9, <1>10, <1>11 DEF Command

\* A turn's steps and those from outside.
LEMMA OtherTypes ==
    ASSUME TypeInv,
           TurnStep \/ (\E m \in Members, r \in Roles : ChangeRole(m, r)) \/ DeployBot \/ DeployRunner
    PROVE  TypeInv'
<1> USE AdministrationAssumption DEF AdministrationAssumption, TypeInv
<1>1. UNCHANGED calls => StageInv'
  BY DEF StageInv, At, Kind
<1>2. ASSUME turn' \in Turns \cup {Resting}, Turn, Witness PROVE TypeInv'
  BY <1>1, <1>2, WitnessTypes DEF Turn, TypeOK, stored, outside
<1>3. CASE FetchAdapter
  <2>1. turn' \in Turns
    BY <1>3 DEF FetchAdapter, Turns, TypeOK
  <2> QED
    BY <1>2, <1>3, <2>1 DEF FetchAdapter
<1>4. turn.stage # "idle" => turn \in Turns
  BY DEF TypeOK, Resting
<1>5. CASE LoadOverrides
  <2>1. \A k \in Keys : Plain(k) \in Values \cup {None}
    BY DEF Plain, TypeOK
  <2>2. turn' \in Turns
    BY <1>4, <1>5, <2>1 DEF LoadOverrides, Turns
  <2> QED
    BY <1>2, <1>5, <2>2 DEF LoadOverrides
<1>6. CASE StartRun
  <2>1. PICK refused \in SUBSET Guarded :
          turn' = [turn EXCEPT !.stage = "running",
                     !.given = [k \in Keys |-> IF k \in turn.def.names \ refused
                                               THEN turn.given[k] ELSE None]]
    BY <1>6 DEF StartRun
  <2>2. turn' \in Turns
    BY <1>4, <1>6, <2>1 DEF StartRun, Turns
  <2> QED
    BY <1>2, <1>6, <2>2 DEF StartRun
<1>7. CASE EndTurn
  BY <1>2, <1>7 DEF EndTurn
<1>8. ASSUME NEW m \in Members, NEW r \in Roles, ChangeRole(m, r) PROVE TypeInv'
  <2>1. roles' \in [Members -> SUBSET Roles]
    BY <1>8 DEF ChangeRole, TypeOK
  <2>2. sealKey <= changes' + 1 /\ changes' \in 0..MaxOutside
    BY <1>8 DEF ChangeRole, Outside, TypeOK, Seals
  <2>3. UNCHANGED <<stored, issued, managed, skewed, sealKey, openKeys, calls, turn>> /\ Witness
    BY <1>8 DEF ChangeRole, Outside
  <2> QED
    BY <1>1, <2>1, <2>2, <2>3, WitnessTypes DEF TypeOK, stored
<1>9. CASE DeployBot
  <2>1. calls' \in [Slots -> Calls \cup {Idle}] /\ StageInv'
    BY <1>9 DEF DeployBot, StageInv, At, Idle
  <2>2. sealKey' \in Seals \ {0} /\ sealKey' <= changes' + 1
    BY <1>9 DEF DeployBot, Outside, TypeOK, Seals
  <2> QED
    BY <1>9, <2>1, <2>2, WitnessTypes DEF DeployBot, Outside, TypeOK, stored
<1>10. CASE DeployRunner
  <2>1. openKeys' \subseteq Seals
    BY <1>10 DEF DeployRunner, TypeOK
  <2>2. sealKey <= changes' + 1 /\ changes' \in 0..MaxOutside
    BY <1>10 DEF DeployRunner, Outside, TypeOK, Seals
  <2> QED
    BY <1>1, <1>10, <2>1, <2>2, WitnessTypes DEF DeployRunner, Outside, TypeOK, stored
<1> QED
  BY <1>3, <1>5, <1>6, <1>7, <1>8, <1>9, <1>10 DEF TurnStep

\* Every step keeps the types.
LEMMA TypeStep == TypeInv /\ [Next]_vars => TypeInv'
<1> SUFFICES ASSUME TypeInv, [Next]_vars PROVE TypeInv'
  OBVIOUS
<1>1. CASE UNCHANGED vars
  BY <1>1 DEF TypeInv, TypeOK, StageInv, At, Kind, vars, stored, outside, history
<1> QED
  BY <1>1, CommandTypes, OtherTypes DEF Next

\* The guild's rows, the commands, the turn and the keys are what their comments say,
\* whatever the members, tools and values are.
THEOREM TypeCorrect == Spec => []TypeOK
<1>1. Spec => []TypeInv
  BY TypeInit, TypeStep, PTL DEF Spec
<1> QED
  BY <1>1, PTL DEF TypeInv

-----------------------------------------------------------------------------
(* How the commands move.                                                  *)

\* Every step keeps the history.
LEMMA WitnessAlways == Next => Witness
BY DEF Next, Command, Give, Resolve, LookUp, AskAdmin, Admit, GiveUp, InitPolicy, SetRole, Invite,
       SetOverride, ClearOverride, ActElsewhere, CheckUpdate, ApplyUpdate, Reads, TurnStep,
       FetchAdapter, LoadOverrides, StartRun, EndTurn, ChangeRole, DeployBot, DeployRunner

\* A command beyond its start was in progress before the step, with the same sender,
\* roles and request; a new stage is its own step.
LEMMA Evolves ==
    ASSUME TypeInv, [Next]_vars, NEW d \in Slots, calls'[d].stage \notin {"idle", "issued"}
    PROVE  /\ d \in Active
           /\ calls'[d].by = calls[d].by /\ calls'[d].held = calls[d].held
           /\ calls'[d].req = calls[d].req
           /\ \/ calls'[d].stage = calls[d].stage
              \/ Resolve(d) \/ LookUp(d) \/ AskAdmin(d) \/ Admit(d) \/ CheckUpdate(d)
<1> DEFINE Kept == /\ calls'[d].by = calls[d].by /\ calls'[d].held = calls[d].held
                   /\ calls'[d].req = calls[d].req /\ calls'[d].stage = calls[d].stage
<1> USE DEF TypeInv
<1>1. CASE UNCHANGED calls
  BY <1>1, ActiveCalls
<1>2. ASSUME Kept PROVE d \in Active
  BY <1>2, ActiveCalls
<1>3. ASSUME NEW c \in Slots, Give(c) PROVE d # c /\ Kept
  BY <1>3 DEF Give, TypeOK
<1>4. ASSUME NEW c \in Slots, Over(c) PROVE d # c /\ Kept
  BY <1>4, OverEnds
<1>5. ASSUME NEW c \in Slots, c \in Active, NEW s \in Stages, Goto(c, s), d # c PROVE Kept
  BY <1>5, GotoMoves
<1>6. ASSUME NEW c \in Slots, Resolve(c) \/ LookUp(c) \/ AskAdmin(c) \/ Admit(c) \/ CheckUpdate(c)
      PROVE  c \in Active /\ \E s \in Stages : Goto(c, s)
  BY <1>6, ActiveCalls DEF Resolve, LookUp, AskAdmin, Admit, CheckUpdate, Granted, At, Stages
<1>7. ASSUME NEW c \in Slots, ApplyUpdate(c) PROVE d # c /\ Kept
  <2>1. d # c
    BY <1>7 DEF ApplyUpdate, Idle
  <2>2. CASE At(d, "checked")
    <3>1. calls[d] \in Calls /\ calls'[d] = [calls[d] EXCEPT !.late = TRUE]
      BY <1>7, <2>1, <2>2, ActiveCalls DEF ApplyUpdate, At
    <3> QED
      BY <2>1, <3>1 DEF Calls
  <2>3. CASE ~At(d, "checked")
    BY <1>7, <2>1, <2>3 DEF ApplyUpdate
  <2> QED
    BY <2>2, <2>3
<1>8. ASSUME NEW c \in Slots, Command(c)
      PROVE  \/ Kept
             \/ d = c /\ (Resolve(d) \/ LookUp(d) \/ AskAdmin(d) \/ Admit(d) \/ CheckUpdate(d))
  BY <1>3, <1>4, <1>5, <1>6, <1>7, <1>8
     DEF Command, GiveUp, InitPolicy, SetRole, Invite, SetOverride, ClearOverride, ActElsewhere
<1>9. CASE DeployBot
  BY <1>9 DEF DeployBot, Idle
<1>10. CASE TurnStep \/ (\E m \in Members, r \in Roles : ChangeRole(m, r)) \/ DeployRunner
  BY <1>1, <1>10 DEF TurnStep, FetchAdapter, LoadOverrides, StartRun, EndTurn, Turn, ChangeRole,
                     DeployRunner
<1>11. ASSUME NEW c \in Slots, Command(c), ~Kept
       PROVE  d \in Active /\ \E s \in Stages : Goto(d, s)
  BY <1>6, <1>8, <1>11
<1>12. ASSUME NEW c \in Slots, Command(c), ~Kept
       PROVE  /\ calls'[d].by = calls[d].by /\ calls'[d].held = calls[d].held
              /\ calls'[d].req = calls[d].req
  BY <1>11, <1>12, GotoMoves
<1>13. CASE UNCHANGED vars
  BY <1>1, <1>13 DEF vars
<1> QED
  BY <1>1, <1>2, <1>8, <1>9, <1>10, <1>11, <1>12, <1>13 DEF Next

-----------------------------------------------------------------------------
(* Permissions.                                                            *)

\* Each of the commands' checks lets only those through who may give the command with
\* the roles it carries.
LEMMA GrantedMayGive ==
    ASSUME TypeInv, NEW c \in Slots, Granted(c)
    PROVE  MayGive(c, Held(c))
<1>1. CASE SetGranted(c)
  <2>1. Kind(c) = "set"
    BY <1>1 DEF SetGranted, TypeInv, StageInv
  <2> QED
    BY <1>1, <2>1 DEF SetGranted, IsAdmin, MayGive
<1>2. CASE InitGranted(c) \/ RoleGranted(c) \/ MapGranted(c) \/ AliasGranted(c) \/ ClearGranted(c)
  BY <1>2 DEF InitGranted, RoleGranted, MapGranted, AliasGranted, ClearGranted, IsAdmin, MayGive
<1>3. CASE HostGranted(c) \/ ToolGranted(c) \/ MessageGranted(c)
  BY <1>3 DEF HostGranted, ToolGranted, MessageGranted, IsAdmin, MayGive
<1>4. CASE LifecycleGranted(c) \/ InviteGranted(c) \/ SendGranted(c)
  BY <1>4 DEF LifecycleGranted, InviteGranted, SendGranted, OwnerOrAdmin, IsAdmin, MayGive
<1> QED
  BY <1>1, <1>2, <1>3, <1>4 DEF Granted

\* Who holds more roles may give no fewer commands.
LEMMA MayGiveMore ==
    ASSUME TypeInv, NEW c \in Slots, c \in Active, NEW held, NEW more, held \subseteq more,
           MayGive(c, held)
    PROVE  MayGive(c, more)
<1>1. calls[c].req.kind \in {"init", "map", "alias", "host", "lifecycle", "send", "message",
                             "role", "invite", "set", "clear", "update"}
  BY ActiveCalls, RequestArgs DEF Calls, TypeInv
<1> QED
  BY <1>1 DEF MayGive, Kind

\* What admits a command leaves what MayGive reads as it is: the roles in Discord are
\* then no less than those it carries, or its sender is deprived.
LEMMA AdmittedMayGive ==
    ASSUME TypeInv, Witness, NEW c \in Slots, Admit(c)
    PROVE  c \in entitled' \/ (c \in deprived' /\ c \in credible')
<1> USE DEF TypeInv
<1>1. /\ c \in Active /\ Goto(c, "granted") /\ UNCHANGED <<policy, invited, roles>>
  BY DEF Admit, Granted, Reads, stored, outside
<1>2. /\ calls'[c].req = calls[c].req /\ calls'[c].by = calls[c].by
      /\ calls'[c].held = calls[c].held /\ calls'[c].stage = "granted"
  BY <1>1, GotoMoves DEF Stages
<1>3. Kind(c)' = Kind(c) /\ By(c)' = By(c) /\ Held(c)' = Held(c)
  BY <1>2 DEF Kind, By, Held
<1>4. IsMember(By(c))' = IsMember(By(c)) /\ roles[By(c)]' = roles[By(c)]
  BY <1>1, <1>3 DEF IsMember
<1>5. MayGive(c, Held(c))
  BY GrantedMayGive DEF Admit
<1>6. calls[c].req.kind \in {"init", "map", "alias", "host", "lifecycle", "send", "message",
                             "role", "invite", "set", "clear", "update"}
  BY <1>1, ActiveCalls, RequestArgs DEF Calls
<1>7. c \in Active'
  BY <1>2 DEF Active
<1>8. CASE Held(c) \subseteq roles[By(c)]
  <2>1. MayGive(c, roles[By(c)])
    BY <1>1, <1>5, <1>8, MayGiveMore
  <2>2. MayGive(c, roles[By(c)])'
    BY <1>1, <1>3, <1>4, <1>6, <2>1 DEF MayGive, Kind
  <2> QED
    BY <1>7, <2>2 DEF Witness
<1>9. CASE ~(Held(c) \subseteq roles[By(c)])
  <2>1. MayGive(c, Held(c))'
    BY <1>1, <1>3, <1>4, <1>5, <1>6 DEF MayGive, Kind
  <2>2. ~(Held(c) \subseteq roles[By(c)])'
    BY <1>3, <1>4, <1>9
  <2> QED
    BY <1>7, <2>1, <2>2 DEF Witness
<1> QED
  BY <1>8, <1>9

\* Whoever a command let through was permitted to give it, with the roles of that
\* moment, at some moment since it was given, unless a role was taken from the sender
\* under the command: the permission is looked up in one or several transactions, each
\* against the roles the command carries, while the roles in Discord, the policy and the
\* members change between them.
THEOREM NoStranger == Spec => []ActsWereEntitled
<1> DEFINE Inv == TypeInv /\ ActsWereEntitled
<1>1. Init => Inv
  BY TypeInit DEF Init, ActsWereEntitled, Idle
<1>2. Inv /\ [Next]_vars => Inv'
  <2> SUFFICES ASSUME Inv, [Next]_vars, NEW c \in Slots,
                      calls'[c].stage \in {"granted", "checked"}
               PROVE  c \in entitled' \/ (c \in deprived' /\ c \in credible')
    BY TypeStep DEF ActsWereEntitled
  <2>1. CASE UNCHANGED vars
    BY <2>1 DEF ActsWereEntitled, vars, history
  <2>2. c \in Active'
    BY DEF Active
  <2>3. CASE Next /\ Admit(c)
    BY <2>3, AdmittedMayGive, WitnessAlways
  <2>4. CASE Next /\ ~Admit(c)
    <3>1. calls[c].stage \in {"granted", "checked"}
      <4>1. CASE Resolve(c) \/ LookUp(c) \/ AskAdmin(c)
        <5>1. calls'[c].stage \in {"resolved", "looked", "outsider"}
          BY <4>1, GotoMoves, ActiveCalls
             DEF Resolve, LookUp, AskAdmin, At, Stages, TypeInv
        <5> QED
          BY <5>1
      <4>2. CASE CheckUpdate(c)
        BY <4>2 DEF CheckUpdate, At
      <4> QED
        BY <2>4, <4>1, <4>2, Evolves
    <3>2. c \in entitled \/ (c \in deprived /\ c \in credible)
      BY <3>1 DEF ActsWereEntitled
    <3> QED
      BY <2>2, <2>4, <3>2, WitnessAlways DEF Witness
  <2> QED
    BY <2>1, <2>3, <2>4
<1> QED
  BY <1>1, <1>2, PTL DEF Spec

\* A role once set stays a role: /setup init inserts and never overwrites.
THEOREM RoleNeverForgotten == Spec => RoleIsKept
<1>1. TypeInv /\ [Next]_vars => [(policy \in Roles) => (policy' \in Roles)]_vars
  <2> SUFFICES ASSUME TypeInv, Next, policy \in Roles PROVE policy' \in Roles
    OBVIOUS
  <2>1. ASSUME NEW c \in Slots, SetRole(c) PROVE policy' \in Roles
    BY <2>1, ActiveCalls, RequestArgs DEF SetRole, At, Kind, Calls, TypeInv
  <2>2. ASSUME NEW c \in Slots, InitPolicy(c) PROVE policy' \in Roles
    BY <2>2, AdministrationAssumption DEF AdministrationAssumption, InitPolicy, FirstRow
  <2>3. ASSUME NEW c \in Slots, Command(c), ~SetRole(c), ~InitPolicy(c) PROVE policy' = policy
    BY <2>3 DEF Command, Give, Resolve, LookUp, AskAdmin, Admit, GiveUp, Invite, SetOverride,
                ClearOverride, ActElsewhere, CheckUpdate, ApplyUpdate, Reads, stored
  <2>4. CASE \E c \in Slots : Command(c)
    BY <2>1, <2>2, <2>3, <2>4
  <2>5. CASE ~\E c \in Slots : Command(c)
    BY <2>5 DEF Next, TurnStep, FetchAdapter, LoadOverrides, StartRun, EndTurn, Turn, ChangeRole,
                DeployBot, DeployRunner, Outside, stored
  <2> QED
    BY <2>4, <2>5
<1> QED
  BY <1>1, TypeInit, TypeStep, PTL DEF Spec, RoleIsKept

\* An admitted /setup admin-role set has a member with "Manage Server" behind it: the
\* sender or, through the role that let the sender in, the one who set it.
TrustInv ==
    /\ TrustStartsWithManager
    /\ \A c \in Slots : At(c, "granted") /\ Kind(c) = "role" => By(c) \in Managers \/ managed

\* A guild's admin role goes back to a member with Discord's "Manage Server": the check
\* of the admin role fails closed, so nobody makes himself admin where there is no role.
THEOREM TrustBootstraps == Spec => []TrustStartsWithManager
<1> DEFINE Inv == TypeInv /\ TrustInv
<1>1. Init => Inv
  BY TypeInit DEF Init, TrustInv, TrustStartsWithManager, At, Idle
<1>2. Inv /\ [Next]_vars => Inv'
  <2> SUFFICES ASSUME Inv, [Next]_vars PROVE TrustInv'
    BY TypeStep
  <2> USE DEF TrustInv, TrustStartsWithManager
  <2>1. managed => managed'
    BY DEF Next, Command, Give, Resolve, LookUp, AskAdmin, Admit, GiveUp, InitPolicy, SetRole,
           Invite, SetOverride, ClearOverride, ActElsewhere, CheckUpdate, ApplyUpdate, Reads,
           TurnStep, FetchAdapter, LoadOverrides, StartRun, EndTurn, Turn, ChangeRole, DeployBot,
           DeployRunner, Outside, vars, history
  <2>2. TrustStartsWithManager'
    <3>1. ASSUME NEW c \in Slots, SetRole(c) PROVE managed'
      BY <3>1 DEF SetRole
    <3>2. ASSUME NEW c \in Slots, InitPolicy(c), policy' \in Roles PROVE policy' = policy
      BY <3>2, AdministrationAssumption DEF AdministrationAssumption, InitPolicy, FirstRow
    <3>3. ASSUME NEW c \in Slots, Command(c), ~SetRole(c), ~InitPolicy(c) PROVE policy' = policy
      BY <3>3 DEF Command, Give, Resolve, LookUp, AskAdmin, Admit, GiveUp, Invite, SetOverride,
                  ClearOverride, ActElsewhere, CheckUpdate, ApplyUpdate, Reads, stored
    <3>4. CASE ~\E c \in Slots : Command(c)
      <4>1. policy' = policy
        BY <3>4 DEF Next, TurnStep, FetchAdapter, LoadOverrides, StartRun, EndTurn, Turn,
                    ChangeRole, DeployBot, DeployRunner, Outside, stored, vars
      <4> QED
        BY <2>1, <4>1
    <3> QED
      BY <2>1, <3>1, <3>2, <3>3, <3>4
  <2>3. ASSUME NEW c \in Slots, At(c, "granted")', Kind(c)' = "role"
        PROVE  By(c)' \in Managers \/ managed'
    <3>1. /\ c \in Active /\ calls'[c].by = calls[c].by /\ calls'[c].req = calls[c].req
          /\ \/ calls'[c].stage = calls[c].stage
             \/ Resolve(c) \/ LookUp(c) \/ AskAdmin(c) \/ Admit(c) \/ CheckUpdate(c)
      BY <2>3, Evolves DEF At
    <3>2. Kind(c) = "role" /\ By(c)' = By(c)
      BY <2>3, <3>1 DEF Kind, By
    <3>3. CASE calls'[c].stage = calls[c].stage
      BY <2>1, <2>3, <3>2, <3>3 DEF At
    <3>4. CASE Admit(c)
      <4>1. RoleGranted(c)
        BY <3>2, <3>4 DEF Admit, Granted, InitGranted, MapGranted, AliasGranted, ClearGranted,
                          SetGranted, HostGranted, ToolGranted, MessageGranted, LifecycleGranted,
                          InviteGranted, SendGranted, TypeInv, StageInv
      <4> QED
        BY <2>1, <3>2, <4>1 DEF RoleGranted, IsAdmin
    <3>5. CASE Resolve(c) \/ LookUp(c) \/ AskAdmin(c) \/ CheckUpdate(c)
      BY <3>2, <3>5 DEF Resolve, LookUp, AskAdmin, CheckUpdate
    <3> QED
      BY <3>1, <3>3, <3>4, <3>5
  <2> QED
    BY <2>2, <2>3
<1>3. TrustInv => TrustStartsWithManager
  BY DEF TrustInv
<1> QED
  BY <1>1, <1>2, <1>3, PTL DEF Spec

-----------------------------------------------------------------------------
(* The definition and the turn.                                            *)

\* Only ApplyUpdate writes the definition.
LEMMA ToolWrites ==
    ASSUME [Next]_vars, ~\E c \in Slots : ApplyUpdate(c)
    PROVE  tool' = tool /\ skewed' = skewed
BY DEF Next, Command, Give, Resolve, LookUp, AskAdmin, Admit, GiveUp, InitPolicy, SetRole, Invite,
       SetOverride, ClearOverride, ActElsewhere, CheckUpdate, Reads, TurnStep, FetchAdapter,
       LoadOverrides, StartRun, EndTurn, Turn, ChangeRole, DeployBot, DeployRunner, Outside, vars,
       stored, history

\* Only ApplyUpdate makes another command late.
LEMMA LateStays ==
    ASSUME TypeInv, [Next]_vars, ~\E c \in Slots : ApplyUpdate(c), NEW d \in Slots,
           calls'[d].stage = "checked", calls[d].stage = "checked"
    PROVE  calls'[d].late = calls[d].late
<1> USE DEF TypeInv
<1>1. ASSUME NEW c \in Slots, Command(c) PROVE calls'[d].late = calls[d].late
  <2>1. CASE Give(c)
    BY <2>1 DEF Give, TypeOK, At
  <2>2. CASE Over(c)
    BY <2>2, OverEnds
  <2>3. CASE Resolve(c) \/ LookUp(c) \/ AskAdmin(c) \/ Admit(c) \/ CheckUpdate(c)
    <3>1. PICK s \in Stages : c \in Active /\ Goto(c, s)
      BY <2>3, ActiveCalls DEF Resolve, LookUp, AskAdmin, Admit, CheckUpdate, Granted, At, Stages
    <3> QED
      BY <3>1, GotoMoves
  <2> QED
    BY <1>1, <2>1, <2>2, <2>3 DEF Command, GiveUp, InitPolicy, SetRole, Invite, SetOverride,
                                  ClearOverride, ActElsewhere
<1>2. CASE DeployBot
  BY <1>2 DEF DeployBot, Idle
<1> QED
  BY <1>1, <1>2 DEF Next, TurnStep, FetchAdapter, LoadOverrides, StartRun, EndTurn, Turn,
                    ChangeRole, DeployRunner, vars

\* The definition is valid, and an update that waits to be written and has seen every
\* other one leaves it so.
ToolInv ==
    skewed \/ (/\ Valid(tool)
               /\ \A c \in Slots : At(c, "checked") => calls[c].late \/ Valid(Result(c)))

\* The stored definition keeps its contract as long as no update is written over one
\* its check did not see; two that overlap can break it, and get_adapter then refuses
\* the tool.
THEOREM ToolStaysValid == Spec => []StoredToolIsValid
<1> DEFINE Inv == TypeInv /\ ToolInv
<1>1. Init => Inv
  BY TypeInit, AdministrationAssumption DEF AdministrationAssumption, Init, ToolInv, At, Idle
<1>2. Inv /\ [Next]_vars => Inv'
  <2> SUFFICES ASSUME Inv, [Next]_vars PROVE ToolInv'
    BY TypeStep
  <2>1. CASE \E c \in Slots : ApplyUpdate(c)
    <3>1. PICK c \in Slots : ApplyUpdate(c)
      BY <2>1
    <3>2. tool' = Result(c) /\ skewed' = (skewed \/ calls[c].late) /\ At(c, "checked")
      BY <3>1 DEF ApplyUpdate
    <3>3. skewed' \/ Valid(tool)'
      <4>1. CASE skewed \/ calls[c].late
        BY <3>2, <4>1
      <4>2. CASE ~skewed /\ ~calls[c].late
        BY <3>2, <4>2 DEF ToolInv, Valid
      <4> QED
        BY <4>1, <4>2
    <3>4. ASSUME NEW d \in Slots, At(d, "checked")' PROVE calls'[d].late
      <4>1. d # c
        BY <3>1, <3>4 DEF ApplyUpdate, At, Idle
      <4>2. CASE At(d, "checked")
        <5>1. calls[d] \in Calls /\ calls'[d] = [calls[d] EXCEPT !.late = TRUE]
          BY <3>1, <4>1, <4>2, ActiveCalls DEF ApplyUpdate, At, TypeInv
        <5> QED
          BY <5>1 DEF Calls
      <4>3. CASE ~At(d, "checked")
        BY <3>1, <3>4, <4>1, <4>3 DEF ApplyUpdate, At
      <4> QED
        BY <4>2, <4>3
    <3> QED
      BY <3>3, <3>4 DEF ToolInv
  <2>2. CASE ~\E c \in Slots : ApplyUpdate(c)
    <3>1. tool' = tool /\ skewed' = skewed
      BY <2>2, ToolWrites
    <3>2. ASSUME NEW c \in Slots, At(c, "checked")', ~skewed
          PROVE  calls'[c].late \/ Valid(Result(c))'
      <4>1. /\ c \in Active /\ calls'[c].req = calls[c].req
            /\ \/ calls'[c].stage = calls[c].stage
               \/ Resolve(c) \/ LookUp(c) \/ AskAdmin(c) \/ Admit(c) \/ CheckUpdate(c)
        BY <3>2, Evolves DEF At
      <4>2. Result(c)' = Result(c)
        BY <3>1, <4>1 DEF Result
      <4>3. CASE CheckUpdate(c)
        <5>1. Kind(c) = "update" /\ tool \in Tools
          BY <4>3 DEF CheckUpdate, TypeInv, TypeOK
        <5>2. CASE calls[c].req.arg[1] = "enabled"
          <6>1. Result(c).source = tool.source /\ Result(c).pattern = tool.pattern
            BY <5>2 DEF Result, Updated
          <6> QED
            BY <3>2, <4>2, <6>1 DEF ToolInv, Valid
        <5>3. CASE calls[c].req.arg[1] # "enabled"
          BY <4>2, <4>3, <5>3 DEF CheckUpdate, Accepted, Valid
        <5> QED
          BY <5>2, <5>3
      <4>4. CASE Resolve(c) \/ LookUp(c) \/ AskAdmin(c) \/ Admit(c)
        <5>1. calls'[c].stage \in {"resolved", "looked", "outsider", "granted"}
          BY <4>1, <4>4, GotoMoves DEF Resolve, LookUp, AskAdmin, Admit, Stages, TypeInv
        <5> QED
          BY <3>2, <5>1 DEF At
      <4>5. CASE calls'[c].stage = calls[c].stage
        <5>1. calls'[c].late = calls[c].late
          BY <2>2, <3>2, <4>1, <4>5, LateStays DEF At
        <5> QED
          BY <3>2, <4>2, <4>5, <5>1 DEF ToolInv, At, Valid
      <4> QED
        BY <4>1, <4>3, <4>4, <4>5
    <3> QED
      BY <3>1, <3>2 DEF ToolInv, Valid
  <2> QED
    BY <2>1, <2>2
<1>3. ToolInv => StoredToolIsValid
  BY DEF ToolInv, StoredToolIsValid
<1> QED
  BY <1>1, <1>2, <1>3, PTL DEF Spec

\* While a turn is prepared, what the configuration offers now was recorded; the keys
\* its definition has no place for were offered nothing, and what it loaded for the
\* others was offered.
TurnInv ==
    turn.stage # "idle" =>
      /\ turn.def.names \subseteq tool.names
      /\ \A k \in Keys :
           /\ Offer(k) \subseteq offered[k]
           /\ k \notin turn.def.names => None \in offered[k]
           /\ turn.stage = "loaded" /\ k \in turn.def.names => turn.given[k] \in offered[k]
      /\ GivenWasOffered

\* The record only grows while the turn lasts, and holds what is offered now.
LEMMA OfferGrows ==
    ASSUME TypeInv, Witness, turn'.stage # "idle", NEW k \in Keys
    PROVE  offered[k] \subseteq offered'[k] /\ Offer(k)' \subseteq offered'[k]
BY DEF Witness

\* A definition never loses the place for a key.
LEMMA NamesGrow == ASSUME TypeInv, [Next]_vars PROVE tool.names \subseteq tool'.names
<1>1. ASSUME NEW c \in Slots, ApplyUpdate(c) PROVE tool.names \subseteq tool'.names
  BY <1>1, ActiveCalls, UpdatedIsTool DEF ApplyUpdate, At, TypeInv, StageInv
<1> QED
  BY <1>1, ToolWrites

\* A turn runs with overrides that were stored and had their place in the definition at
\* some moment since it began, or without where there was none or the resolver refused;
\* an override that cannot be decrypted ends the turn instead.
THEOREM TurnsUseTheirOverrides == Spec => []GivenWasOffered
<1> DEFINE Inv == TypeInv /\ TurnInv
<1>1. Init => Inv
  BY TypeInit DEF Init, TurnInv, Resting
<1>2. Inv /\ [Next]_vars => Inv'
  <2> SUFFICES ASSUME Inv, [Next]_vars, turn'.stage # "idle" PROVE TurnInv'
    BY TypeStep DEF TurnInv
  <2>1. CASE UNCHANGED vars
    BY <2>1 DEF TurnInv, GivenWasOffered, Offer, vars, stored
  <2>2. CASE Next /\ FetchAdapter
    <3>1. turn' = [stage |-> "adapted", def |-> tool, given |-> [k \in Keys |-> None]]
          /\ UNCHANGED <<tool, override>>
      BY <2>2 DEF FetchAdapter, Turn, stored
    <3>2. ASSUME NEW k \in Keys, k \notin tool.names PROVE None \in offered'[k]
      <4>1. None \in Offer(k)'
        BY <3>1, <3>2 DEF Offer
      <4> QED
        BY <2>2, <4>1, OfferGrows, WitnessAlways
    <3>3. turn'.stage = "adapted" /\ turn'.def = tool
      BY <3>1
    <3>4. \A k \in Keys : Offer(k)' \subseteq offered'[k]
      BY <2>2, OfferGrows, WitnessAlways
    <3> QED
      BY <3>1, <3>2, <3>3, <3>4 DEF TurnInv, GivenWasOffered
  <2>3. CASE Next /\ LoadOverrides
    <3>1. /\ turn.stage = "adapted" /\ turn \in Turns /\ UNCHANGED <<tool, override>>
          /\ turn' = [turn EXCEPT !.stage = "loaded", !.given = [k \in Keys |-> Plain(k)]]
      BY <2>3 DEF LoadOverrides, Turn, stored, TypeInv, TypeOK, Resting
    <3>2. turn'.stage = "loaded" /\ turn'.def = turn.def /\ turn'.given = [k \in Keys |-> Plain(k)]
      BY <3>1 DEF Turns
    <3>3. ASSUME NEW k \in Keys, k \in turn.def.names PROVE turn'.given[k] \in offered'[k]
      <4>1. k \in tool.names /\ Readable(k)
        BY <2>3, <3>1, <3>3 DEF LoadOverrides, TurnInv
      <4>2. Plain(k) \in Offer(k)
        BY <4>1 DEF Plain, Offer, Readable
      <4> QED
        BY <2>3, <3>1, <3>2, <4>2, OfferGrows, WitnessAlways DEF TurnInv
    <3> QED
      BY <2>3, <3>1, <3>2, <3>3, OfferGrows, WitnessAlways DEF TurnInv, GivenWasOffered
  <2>4. CASE Next /\ StartRun
    <3>1. turn.stage = "loaded" /\ turn \in Turns /\ UNCHANGED <<tool, override>>
      BY <2>4 DEF StartRun, Turn, stored, TypeInv, TypeOK, Resting
    <3>2. PICK refused \in SUBSET Guarded :
            turn' = [turn EXCEPT !.stage = "running",
                       !.given = [k \in Keys |-> IF k \in turn.def.names \ refused
                                                 THEN turn.given[k] ELSE None]]
      BY <2>4 DEF StartRun
    <3>3. /\ turn'.stage = "running" /\ turn'.def = turn.def
          /\ \A k \in Keys : turn'.given[k] = IF k \in turn.def.names \ refused
                                             THEN turn.given[k] ELSE None
      BY <3>1, <3>2 DEF Turns
    <3>4. ASSUME NEW k \in Keys PROVE turn'.given[k] \in offered'[k]
      <4>1. CASE k \in turn.def.names \ refused
        BY <2>4, <3>1, <3>3, <4>1, OfferGrows, WitnessAlways DEF TurnInv
      <4>2. CASE k \notin turn.def.names
        BY <2>4, <3>1, <3>3, <4>2, OfferGrows, WitnessAlways DEF TurnInv
      <4>3. CASE k \in refused
        <5>1. None \in Offer(k)
          BY <4>3 DEF Offer
        <5> QED
          BY <2>4, <3>1, <3>3, <4>3, <5>1, OfferGrows, WitnessAlways DEF TurnInv
      <4> QED
        BY <4>1, <4>2, <4>3
    <3> QED
      BY <2>4, <3>1, <3>3, <3>4, OfferGrows, WitnessAlways DEF TurnInv, GivenWasOffered
  <2>5. CASE Next /\ ~FetchAdapter /\ ~LoadOverrides /\ ~StartRun
    <3>1. turn' = turn
      <4>1. ASSUME NEW c \in Slots, Command(c) PROVE turn' = turn
        BY <4>1 DEF Command, Give, Resolve, LookUp, AskAdmin, Admit, GiveUp, InitPolicy, SetRole,
                    Invite, SetOverride, ClearOverride, ActElsewhere, CheckUpdate, ApplyUpdate, Reads
      <4>2. ~EndTurn /\ ~DeployRunner
        BY DEF EndTurn, DeployRunner, Resting
      <4> QED
        BY <2>5, <4>1, <4>2 DEF Next, TurnStep, ChangeRole, DeployBot
    <3>2. turn.def.names \subseteq tool'.names
      BY <3>1, NamesGrow DEF TurnInv
    <3> QED
      BY <2>5, <3>1, <3>2, OfferGrows, WitnessAlways DEF TurnInv, GivenWasOffered
  <2> QED
    BY <2>1, <2>2, <2>3, <2>4, <2>5
<1>3. TypeInv /\ TurnInv => GivenWasOffered
  BY DEF TurnInv, GivenWasOffered
<1> QED
  BY <1>1, <1>2, <1>3, PTL DEF Spec
=============================================================================
