----------------------------- MODULE Administration -----------------------------
(***************************************************************************)
(* The guild's administration: who may give which command, and what the       *)
(* commands store.  A command is checked and applied in separate steps, with    *)
(* the roles Discord sent along with it; several run at a time.  What they        *)
(* store, the admin role, one tool definition, one session's members and its        *)
(* overrides, is read by the other commands and by the session's turns.               *)
(*                                                                         *)
(* Starting, ending and messaging a session, maps, aliases and roots appear as their     *)
(* permission only: StartCommand, SessionLifecycle and TurnLedger model the rest.          *)
(***************************************************************************)
EXTENDS Integers, FiniteSets

CONSTANTS Members, Roles,
          Managers,        \* members with Discord's "Manage Server"
          Platform,        \* PLATFORM_ADMIN_USER_IDS
          Owner,           \* owner of the session
          Holds,           \* the roles each member has at first
          FirstTools,      \* the definitions the tool may have at first
          Slots,           \* commands in progress at a time
          Keys,            \* override keys of a session,
          Secrets,         \* those stored encrypted,
          Guarded,         \* and those a turn may refuse to apply (base_url)
          Values,
          MaxCalls,        \* bound on commands
          MaxOutside,      \* bound on role changes and deployments
          None

Tools == [source : {"none", "regex"}, pattern : {"group", "plain"},
          names : SUBSET Keys, enabled : {"yes", "no"}]

\* The one contract of a definition: a capture group where the source reads one.
Valid(t) == t.source = "regex" => t.pattern = "group"

ASSUME AdministrationAssumption ==
    /\ FirstTools \subseteq {t \in Tools : Valid(t) /\ t.enabled = "yes"}
    /\ Managers \subseteq Members /\ Platform \subseteq Members /\ Owner \in Members
    /\ Holds \in [Members -> SUBSET Roles]
    /\ Secrets \subseteq Keys /\ Guarded \subseteq Keys
    /\ MaxCalls \in Nat /\ MaxOutside \in Nat
    /\ None \notin Roles \cup Members \cup Keys \cup Values
    /\ "unset" \notin Roles \cup {None}

VARIABLES
    policy,     \* guild_admin_role_policy: None (no row), "unset" or a role
    roles,      \* Discord: the roles of each member
    invited,    \* session_members besides the owner
    tool,       \* tool_definitions: the row of the session's tool
    override,   \* session_config: [value, seal], seal 0 for plain text, or None
    sealKey,    \* DEPLOYMENT_SECRET_KEY of the bot: the key that encrypts
    openKeys,   \* and of the runner: the keys that decrypt
    calls,      \* the commands in progress
    turn,       \* a turn of the session being prepared or run
    issued, changes,
    \* history
    entitled,   \* commands whose sender has been permitted since they were given
    credible,   \* those permitted since to someone with the roles they carry
    deprived,   \* those whose sender has since been without a role they carry
    managed,    \* a member with "Manage Server" has set the admin role
    skewed,     \* an update was applied after another one its check did not see
    offered     \* what the configuration offered the turn since it began

stored  == <<policy, invited, tool, override>>
outside == <<roles, sealKey, openKeys, changes>>
history == <<entitled, credible, deprived, managed, skewed>>
vars == <<stored, outside, calls, turn, issued, history, offered>>

Seals == 0..(MaxOutside + 1)
Request(kind, args) == {[kind |-> kind, arg |-> a] : a \in args}
NoArg == {<<None, None>>}
Requests ==
    Request("init", NoArg) \cup Request("map", NoArg) \cup Request("alias", NoArg)
    \cup Request("host", NoArg) \cup Request("lifecycle", NoArg)
    \cup Request("send", NoArg) \cup Request("message", NoArg)
    \cup Request("role", {None} \X Roles) \cup Request("invite", {None} \X (Members \ {Owner}))
    \cup Request("set", Keys \X Values)
    \cup Request("clear", (Keys \cup {None}) \X {None})             \* None: clear-all
    \cup Request("update", {"source"} \X {"none", "regex"})
    \cup Request("update", {"pattern"} \X {"group", "plain"})
    \cup Request("update", {"names"} \X Keys)
    \cup Request("update", {"enabled"} \X {"yes", "no"})            \* enable, disable

Idle == [stage |-> "idle"]
Resting == [stage |-> "idle"]
Calls == [by : Members, held : SUBSET Roles, req : Requests, late : BOOLEAN,
          stage : {"issued", "looked", "resolved", "outsider", "granted", "checked"}]
Turns == [stage : {"adapted", "loaded", "running"}, def : Tools,
          given : [Keys -> Values \cup {None}]]

TypeOK ==
    /\ policy \in Roles \cup {None, "unset"}
    /\ roles \in [Members -> SUBSET Roles] /\ invited \subseteq Members
    /\ tool \in Tools
    /\ override \in [Keys -> [value : Values, seal : Seals] \cup {None}]
    /\ sealKey \in Seals \ {0} /\ openKeys \subseteq Seals
    /\ calls \in [Slots -> Calls \cup {Idle}] /\ turn \in Turns \cup {Resting}
    /\ issued \in 0..MaxCalls /\ changes \in 0..MaxOutside
    /\ entitled \subseteq Slots /\ credible \subseteq Slots /\ deprived \subseteq Slots
    /\ managed \in BOOLEAN /\ skewed \in BOOLEAN
    /\ offered \in [Keys -> SUBSET (Values \cup {None})]

Init ==
    /\ policy \in Roles \cup {None} /\ roles = Holds /\ invited = {}
    /\ tool \in FirstTools
    /\ override = [k \in Keys |-> None] /\ sealKey = 1 /\ openKeys = {1}
    /\ calls = [c \in Slots |-> Idle] /\ turn = Resting
    /\ issued = 0 /\ changes = 0
    /\ entitled = {} /\ credible = {} /\ deprived = {}
    /\ managed \in BOOLEAN /\ (managed <=> policy \in Roles) /\ skewed = FALSE
    /\ offered = [k \in Keys |-> {}]

Active == {c \in Slots : calls[c].stage # "idle"}
At(c, stage) == calls[c].stage = stage
Kind(c) == calls[c].req.kind

-----------------------------------------------------------------------------
(* Permissions.                                                            *)

\* is_guild_admin_authorized: fails closed without a role.
IsAdmin(held) == policy \in Roles /\ policy \in held

\* is_session_member.
IsMember(m) == m = Owner \/ m \in invited

\* Mutant of OwnerOrAdmin: membership is enough.
MemberOrAdmin(m, held) == IsMember(m) \/ IsAdmin(held)
\* is_session_owner_or_admin.
OwnerOrAdmin(m, held) == m = Owner \/ IsAdmin(held)

By(c)   == calls[c].by
Held(c) == calls[c].held

\* /setup init and /setup admin-role set: the bootstrap.
InitGranted(c) == Kind(c) = "init" /\ At(c, "issued") /\ (By(c) \in Managers \/ IsAdmin(Held(c)))
RoleGranted(c) == Kind(c) = "role" /\ At(c, "issued") /\ (By(c) \in Managers \/ IsAdmin(Held(c)))
\* /setup map, /root alias, /session config.
MapGranted(c)   == Kind(c) = "map" /\ At(c, "issued") /\ IsAdmin(Held(c))
AliasGranted(c) == Kind(c) = "alias" /\ At(c, "issued") /\ IsAdmin(Held(c))
ClearGranted(c) == Kind(c) = "clear" /\ At(c, "issued") /\ IsAdmin(Held(c))
SetGranted(c)   == At(c, "looked") /\ IsAdmin(Held(c))
\* /start and /root add: can_operate_sessions.
HostGranted(c) == Kind(c) = "host" /\ At(c, "issued") /\ (By(c) \in Platform \/ IsAdmin(Held(c)))
\* /tool: the setting alone, no look at the database.
ToolGranted(c) == Kind(c) = "update" /\ At(c, "issued") /\ By(c) \in Platform
\* A message in the session's thread.
MessageGranted(c) == Kind(c) = "message" /\ At(c, "issued") /\ IsMember(By(c))
\* /stop and /session archive, resume and restart; /session invite; /send.
LifecycleGranted(c) ==
    Kind(c) = "lifecycle" /\ At(c, "resolved") /\ OwnerOrAdmin(By(c), Held(c))
InviteGranted(c) ==
    /\ Kind(c) = "invite"
    /\ \/ At(c, "resolved") /\ By(c) = Owner
       \/ At(c, "outsider") /\ IsAdmin(Held(c))
SendGranted(c) ==
    /\ Kind(c) = "send"
    /\ \/ At(c, "resolved") /\ IsMember(By(c))
       \/ At(c, "outsider") /\ IsAdmin(Held(c))

Granted(c) ==
    /\ c \in Active
    /\ \/ InitGranted(c) \/ RoleGranted(c) \/ MapGranted(c) \/ AliasGranted(c) \/ ClearGranted(c)
       \/ SetGranted(c) \/ HostGranted(c) \/ ToolGranted(c) \/ MessageGranted(c)
       \/ LifecycleGranted(c) \/ InviteGranted(c) \/ SendGranted(c)

\* Who may give a command at this moment, as /help has it: the command's sender, if
\* these are the sender's roles.
MayGive(c, held) ==
    LET admin == policy \in Roles \cap held
    IN  CASE Kind(c) \in {"init", "role"}                   -> admin \/ By(c) \in Managers
          [] Kind(c) \in {"map", "alias", "set", "clear"}   -> admin
          [] Kind(c) = "host"                               -> admin \/ By(c) \in Platform
          [] Kind(c) = "update"                             -> By(c) \in Platform
          [] Kind(c) \in {"lifecycle", "invite"}            -> admin \/ By(c) = Owner
          [] Kind(c) = "send"                               -> admin \/ IsMember(By(c))
          [] Kind(c) = "message"                            -> IsMember(By(c))

\* What the stored configuration offers a turn for a key.
Offer(k) ==
    (IF override[k] # None /\ k \in tool.names THEN {override[k].value} ELSE {None})
    \cup (IF k \in Guarded THEN {None} ELSE {})

-----------------------------------------------------------------------------
(* One command.                                                            *)

\* History, kept by every step: who is permitted and what is offered after it.
Witness ==
    /\ entitled' = {c \in Active' : c \in entitled \/ MayGive(c, roles[By(c)])'}
    /\ credible' = {c \in Active' : c \in credible \/ MayGive(c, Held(c))'}
    /\ deprived' = {c \in Active' : c \in deprived \/ ~(Held(c) \subseteq roles[By(c)])'}
    /\ offered' = IF turn'.stage = "idle" THEN [k \in Keys |-> {}]
                  ELSE [k \in Keys |-> offered[k] \cup Offer(k)']

Goto(c, stage) == calls' = [calls EXCEPT ![c] = [@ EXCEPT !.stage = stage]]
Over(c) == calls' = [calls EXCEPT ![c] = Idle]
\* A step that only reads.
Reads == UNCHANGED <<stored, outside, turn, issued, managed, skewed>> /\ Witness

\* Discord delivers the command with the roles its sender has at that moment.
Give(c) ==
    /\ At(c, "idle") /\ issued < MaxCalls /\ issued' = issued + 1
    /\ \E m \in Members, q \in Requests :
         calls' = [calls EXCEPT ![c] = [by |-> m, held |-> roles[m], req |-> q,
                                        late |-> FALSE, stage |-> "issued"]]
    /\ UNCHANGED <<stored, outside, turn, managed, skewed>> /\ Witness

\* resolve_session_target: only sessions in the sender's scope are found.
Resolve(c) ==
    /\ At(c, "issued") /\ Kind(c) \in {"lifecycle", "invite", "send"}
    /\ IsMember(By(c)) \/ IsAdmin(Held(c))
    /\ Goto(c, "resolved") /\ Reads

\* set_session_config reads the tool before it asks for the permission.
LookUp(c) ==
    /\ At(c, "issued") /\ Kind(c) = "set" /\ calls[c].req.arg[1] \in tool.names
    /\ Goto(c, "looked") /\ Reads

\* Not the owner, not a member: the admin role is looked up next.
AskAdmin(c) ==
    /\ At(c, "resolved")
    /\ \/ Kind(c) = "invite" /\ By(c) # Owner
       \/ Kind(c) = "send" /\ ~IsMember(By(c))
    /\ Goto(c, "outsider") /\ Reads

Admit(c) == Granted(c) /\ Goto(c, "granted") /\ Reads

\* Refused, unknown target or value, a failed statement, the bot stops.
GiveUp(c) == c \in Active /\ Over(c) /\ Reads

\* Mutant of FirstRow: the upsert overwrites.
FreshRow == "unset"
\* ON CONFLICT DO NOTHING: a row without a role, unless there is a row.
FirstRow == IF policy = None THEN "unset" ELSE policy

\* setup_init.
InitPolicy(c) ==
    /\ At(c, "granted") /\ Kind(c) = "init" /\ Over(c)
    /\ policy' = FirstRow
    /\ UNCHANGED <<invited, tool, override, outside, turn, issued, managed, skewed>> /\ Witness

SetRole(c) ==
    /\ At(c, "granted") /\ Kind(c) = "role" /\ Over(c)
    /\ policy' = calls[c].req.arg[2]
    /\ managed' = (managed \/ By(c) \in Managers)
    /\ UNCHANGED <<invited, tool, override, outside, turn, issued, skewed>> /\ Witness

Invite(c) ==
    /\ At(c, "granted") /\ Kind(c) = "invite" /\ Over(c)
    /\ invited' = invited \cup {calls[c].req.arg[2]}
    /\ UNCHANGED <<policy, tool, override, outside, turn, issued, managed, skewed>> /\ Witness

\* Secrets are sealed with the bot's newest key; a row is replaced whole.
SetOverride(c) ==
    /\ At(c, "granted") /\ Kind(c) = "set" /\ Over(c)
    /\ LET k == calls[c].req.arg[1]
       IN  override' = [override EXCEPT ![k] =
                          [value |-> calls[c].req.arg[2],
                           seal |-> IF k \in Secrets THEN sealKey ELSE 0]]
    /\ UNCHANGED <<policy, invited, tool, outside, turn, issued, managed, skewed>> /\ Witness

\* One key, or with clear-all every key.
ClearOverride(c) ==
    /\ At(c, "granted") /\ Kind(c) = "clear" /\ Over(c)
    /\ LET key == calls[c].req.arg[1]
       IN  override' = [k \in Keys |-> IF key \in {k, None} THEN None ELSE override[k]]
    /\ UNCHANGED <<policy, invited, tool, outside, turn, issued, managed, skewed>> /\ Witness

\* The permission is all of it that this module has.
ActElsewhere(c) ==
    /\ At(c, "granted") /\ Kind(c) \in {"map", "alias", "host", "lifecycle", "send", "message"}
    /\ Over(c) /\ Reads

-----------------------------------------------------------------------------
(* /tool update, enable and disable.                                       *)

\* A new value is never empty (Discord asks for one), so no place for a key is lost.
Updated(t, field, value) ==
    [source  |-> IF field = "source"  THEN value ELSE t.source,
     pattern |-> IF field = "pattern" THEN value ELSE t.pattern,
     names   |-> IF field = "names"   THEN t.names \cup {value} ELSE t.names,
     enabled |-> IF field = "enabled" THEN value ELSE t.enabled]
Result(c) == Updated(tool, calls[c].req.arg[1], calls[c].req.arg[2])

\* Mutant of Accepted: the field is checked by itself.
AcceptedAlone(c) == TRUE
\* The whole definition with the new value; switching it on or off checks nothing.
Accepted(c) == calls[c].req.arg[1] = "enabled" \/ Valid(Result(c))

\* The row is read and the resulting definition checked.  A value that changes
\* nothing is not written.
CheckUpdate(c) ==
    /\ At(c, "granted") /\ Kind(c) = "update" /\ Accepted(c) /\ Result(c) # tool
    /\ Goto(c, "checked") /\ Reads

\* The flush writes the changed column only, whatever the others have become.
ApplyUpdate(c) ==
    /\ At(c, "checked")
    /\ tool' = Result(c) /\ skewed' = (skewed \/ calls[c].late)
    /\ calls' = [d \in Slots |->
                   IF d = c THEN Idle
                   ELSE IF At(d, "checked") THEN [calls[d] EXCEPT !.late = TRUE]
                   ELSE calls[d]]
    /\ UNCHANGED <<policy, invited, override, outside, turn, issued, managed>> /\ Witness

-----------------------------------------------------------------------------
(* A turn of the session: build_exec_session and the run.                  *)

Turn == UNCHANGED <<stored, outside, calls, issued, managed, skewed>>
Usable(t) == t.enabled = "yes" /\ Valid(t)

\* get_adapter.
FetchAdapter ==
    /\ turn.stage = "idle" /\ Usable(tool)
    /\ turn' = [stage |-> "adapted", def |-> tool, given |-> [k \in Keys |-> None]]
    /\ Turn /\ Witness

\* Mutant of Readable: a row that cannot be decrypted is skipped.
ReadableAny(k) == TRUE
Readable(k) == override[k] # None => override[k].seal \in openKeys \cup {0}
Plain(k) == IF override[k] # None /\ override[k].seal \in openKeys \cup {0}
            THEN override[k].value ELSE None

\* _load_overrides: one unreadable row and the turn does not run.
LoadOverrides ==
    /\ turn.stage = "adapted" /\ \A k \in Keys : Readable(k)
    /\ turn' = [turn EXCEPT !.stage = "loaded", !.given = [k \in Keys |-> Plain(k)]]
    /\ Turn /\ Witness

\* Overrides the definition has a place for are applied, the guarded ones if the
\* resolver finds a public address; the tool must still be enabled.
StartRun ==
    /\ turn.stage = "loaded" /\ tool.enabled = "yes"
    /\ \E refused \in SUBSET Guarded :
         turn' = [turn EXCEPT !.stage = "running",
                    !.given = [k \in Keys |-> IF k \in turn.def.names \ refused
                                              THEN turn.given[k] ELSE None]]
    /\ Turn /\ Witness

\* The reply, an error notice in its place, or the runner stops.
EndTurn == turn.stage # "idle" /\ turn' = Resting /\ Turn /\ Witness

-----------------------------------------------------------------------------
(* Outside.                                                                *)

Outside == changes < MaxOutside /\ changes' = changes + 1
           /\ UNCHANGED <<stored, issued, managed, skewed>>

\* Discord: a member gains or loses a role; commands under way carry the old ones.
ChangeRole(m, r) ==
    /\ Outside
    /\ \E held \in {roles[m] \cup {r}, roles[m] \ {r}} : roles' = [roles EXCEPT ![m] = held]
    /\ UNCHANGED <<sealKey, openKeys, calls, turn>> /\ Witness

\* A new first key in DEPLOYMENT_SECRET_KEY; the process restarts.
DeployBot ==
    /\ Outside /\ sealKey' = sealKey + 1
    /\ calls' = [c \in Slots |-> Idle]
    /\ UNCHANGED <<roles, openKeys, turn>> /\ Witness

\* The runner's list gets the key too, and keeps the older ones or not.
DeployRunner ==
    /\ Outside /\ openKeys' \in {openKeys \cup {sealKey}, {sealKey}}
    /\ turn' = Resting
    /\ UNCHANGED <<roles, sealKey, calls>> /\ Witness

Command(c) ==
    \/ Give(c) \/ Resolve(c) \/ LookUp(c) \/ AskAdmin(c) \/ Admit(c) \/ GiveUp(c)
    \/ InitPolicy(c) \/ SetRole(c) \/ Invite(c) \/ SetOverride(c) \/ ClearOverride(c)
    \/ ActElsewhere(c) \/ CheckUpdate(c) \/ ApplyUpdate(c)

TurnStep == FetchAdapter \/ LoadOverrides \/ StartRun \/ EndTurn

Next ==
    \/ \E c \in Slots : Command(c)
    \/ TurnStep
    \/ \E m \in Members, r \in Roles : ChangeRole(m, r)
    \/ DeployBot \/ DeployRunner

Spec == Init /\ [][Next]_vars

-----------------------------------------------------------------------------
(* Correctness.                                                            *)

\* Whoever gets past the check of a command was permitted to give it at some moment
\* since, with the roles the sender had in Discord at that moment: no interleaving of
\* the lookups a command makes, of invitations, policy and role changes admits another.
\* The exception are commands whose sender has lost a role under way.  They are checked
\* with the roles they carry, which may become the admin role only then; of them it
\* is only so that these roles were enough at some moment since.
ActsWereEntitled ==
    \A c \in Slots : calls[c].stage \in {"granted", "checked"} =>
        c \in entitled \/ (c \in deprived \cap credible)

\* The admin role goes back to a member with "Manage Server": in a guild without a
\* role nobody else can make himself admin, whatever is tried at the same time.
TrustStartsWithManager == policy \in Roles => managed

\* A role once set may be replaced but is never forgotten, not by a /setup init
\* that began when there was none.
RoleIsKept == [][(policy \in Roles) => (policy' \in Roles)]_vars

\* The stored definition breaks the contract only after two updates whose checks did
\* not see each other.
StoredToolIsValid == skewed \/ Valid(tool)

\* A turn runs with the overrides that were stored and supported at some moment since
\* it began; in particular it never runs on the runner's own key because the
\* session's key was unreadable.
GivenWasOffered ==
    turn.stage = "running" => \A k \in Keys : turn.given[k] \in offered[k]

\* What ActsWereEntitled would say without its exception: a helper gives /setup map,
\* loses a role and passes the check once that role has become the admin role.
NoActOnLostRole ==
    \A c \in Slots : calls[c].stage \in {"granted", "checked"} => c \in entitled

\* What StoredToolIsValid would say without its exception: two updates can break it.
NoInvalidTool == Valid(tool)
=============================================================================
