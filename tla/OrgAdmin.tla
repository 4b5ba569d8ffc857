------------------------------ MODULE OrgAdmin ------------------------------
(***************************************************************************)
(* Peribolos (src/cmd/peribolos/main.go): one run reads the organisation   *)
(* from GitHub part by part and makes the calls that turn it into what the *)
(* config declares: metadata, members, repos, teams and their nesting,     *)
(* members and repos.  Runs follow one another; calls fail, and people     *)
(* change the organisation meanwhile.                                      *)
(*                                                                         *)
(* The teams of a config are listed flat, each with the name of its parent *)
(* ("" at the top).  Logins and repo names are in lower case already.  An  *)
(* unset option of the config is "".                                       *)
(***************************************************************************)
EXTENDS Integers, Sequences, FiniteSets, SequencesExt, FiniteSetsExt

CONSTANTS
  OCases,     \* a sequence of [opt, cfg, org]: the flags, the config, and the organisation at first
  OUnknown,   \* the users that GitHub does not know
  MaxORuns,   \* bound on the runs
  MaxOFails,  \* bound on the calls that fail
  MaxOHands   \* bound on the changes that people make

VARIABLES
  ocase,      \* the case of this behaviour
  oorg,       \* the organisation: [email, perm, admins, members, invited, repos, teams]
  otodo,      \* what the run has still to do
  oinvites,   \* the invitations as they were listed
  omatches,   \* configureTeams: the GitHub team of each declared name, as it was listed or created
  ounused,    \* configureTeams: the ids of the teams to delete
  oerrs,      \* an error has been collected
  oruns,      \* the runs so far
  osettled,   \* how many successful runs without interference came last
  ohands, ofails

orgVars == <<ocase, oorg, otodo, oinvites, omatches, ounused, oerrs, oruns, osettled, ohands, ofails>>
olocal == <<oinvites, omatches, ounused>>

oopt == ocase.opt
ocfg == ocase.cfg
OTeams == DOMAIN ocfg.teams
OChildren(name) == {n \in OTeams : ocfg.teams[n].parent = name}

OList(S) == FoldSet(LAMBDA x, q : Append(q, x), <<>>, S)
OEach(S, F(_)) == FoldSet(LAMBDA x, q : Append(q, F(x)), <<>>, S)
OOrders(S) == {s \in [1 .. Cardinality(S) -> S] : \A x \in S : \E i \in DOMAIN s : s[i] = x}
OCheck == <<[op |-> "check"]>>

OInit ==
  /\ ocase \in {OCases[i] : i \in DOMAIN OCases}
  /\ oorg = ocase.org
  /\ otodo = <<>> /\ oinvites = {} /\ omatches = <<>> /\ ounused = {}
  /\ oerrs = FALSE /\ oruns = 0 /\ osettled = 0 /\ ohands = 0 /\ ofails = 0

-----------------------------------------------------------------------------
(* GitHub: what it accepts, and what a call changes.                       *)

InOrg(o, u) == u \in o.admins \cup o.members

TeamNames(o) == {o.teams[i].name : i \in DOMAIN o.teams}

Accepts(c) ==
  CASE c.op = "addMember" -> c.user \notin OUnknown
    [] c.op = "createTeam" -> c.name \notin TeamNames(oorg)
    [] c.op = "editTeam" -> /\ c.id \in DOMAIN oorg.teams
                            /\ \A i \in DOMAIN oorg.teams \ {c.id} : oorg.teams[i].name # c.name
    [] c.op \in {"deleteTeam", "addTeamMember", "removeTeamMember", "removeTeamRepo"} -> c.id \in DOMAIN oorg.teams
    [] c.op = "updateTeamRepo" -> c.id \in DOMAIN oorg.teams /\ c.repo \in DOMAIN oorg.repos
    [] c.op = "updateRepo" -> c.repo \in DOMAIN oorg.repos
    [] OTHER -> TRUE

TeamWith(o, id, t) == [o EXCEPT !.teams = (id :> t) @@ @]
TeamWithout(t, u) == [t EXCEPT !.maint = @ \ {u}, !.members = @ \ {u}, !.invited = @ \ {u}]

\* The id of a team that was deleted may be used again.
NewTeamId(o) == CHOOSE i \in 1 .. Cardinality(DOMAIN o.teams) + 1 :
                  i \notin DOMAIN o.teams /\ \A j \in 1 .. i - 1 : j \in DOMAIN o.teams

UpdateOrgMembership(o, u, admin) ==
  CASE ~InOrg(o, u) -> [o EXCEPT !.invited = @ \cup {u}]
    [] admin -> [o EXCEPT !.admins = @ \cup {u}, !.members = @ \ {u}]
    [] OTHER -> [o EXCEPT !.admins = @ \ {u}, !.members = @ \cup {u}]

RemoveOrgMembership(o, u) ==
  [o EXCEPT !.admins = @ \ {u}, !.members = @ \ {u}, !.invited = @ \ {u},
            !.teams = [i \in DOMAIN @ |-> TeamWithout(@[i], u)]]

UpdateTeamMembership(o, id, u, maintainer) ==
  LET t == TeamWithout(o.teams[id], u) IN
  CASE ~InOrg(o, u) -> [TeamWith(o, id, [t EXCEPT !.invited = @ \cup {u}]) EXCEPT !.invited = @ \cup {u}]
    [] maintainer -> TeamWith(o, id, [t EXCEPT !.maint = @ \cup {u}])
    [] OTHER -> TeamWith(o, id, [t EXCEPT !.members = @ \cup {u}])

\* A new team is secret unless the request says otherwise.
CreatedTeam(c) == [name |-> c.name, privacy |-> IF c.privacy = "" THEN "secret" ELSE c.privacy, parent |-> 0,
                   maint |-> {}, members |-> {}, invited |-> {}, repos |-> <<>>]

OEffect(c, o) ==
  CASE c.op = "editOrg" -> [o EXCEPT !.email = c.email, !.perm = c.perm]
    [] c.op = "addMember" -> UpdateOrgMembership(o, c.user, c.super)
    [] c.op = "removeMember" -> RemoveOrgMembership(o, c.user)
    [] c.op = "createRepo" -> [o EXCEPT !.repos = (c.repo :> c.as) @@ @]
    [] c.op = "updateRepo" -> [o EXCEPT !.repos = [n \in (DOMAIN @ \ {c.repo}) \cup {c.name} |->
                                                     IF n = c.name THEN c.as ELSE @[n]]]
    [] c.op = "createTeam" -> TeamWith(o, NewTeamId(o), CreatedTeam(c))
    [] c.op = "editTeam" ->
         TeamWith(o, c.id, [o.teams[c.id] EXCEPT !.name = c.name, !.privacy = c.privacy, !.parent = c.parent])
    [] c.op = "deleteTeam" -> [o EXCEPT !.teams = [i \in DOMAIN @ \ {c.id} |-> @[i]]]
    [] c.op = "addTeamMember" -> UpdateTeamMembership(o, c.id, c.user, c.super)
    [] c.op = "removeTeamMember" -> TeamWith(o, c.id, TeamWithout(o.teams[c.id], c.user))
    [] c.op = "updateTeamRepo" -> TeamWith(o, c.id, [o.teams[c.id] EXCEPT !.repos = (c.repo :> c.perm) @@ @])
    [] c.op = "removeTeamRepo" ->
         TeamWith(o, c.id, [o.teams[c.id] EXCEPT !.repos = [r \in DOMAIN @ \ {c.repo} |-> @[r]]])

-----------------------------------------------------------------------------
(* The steps of a run.                                                     *)

OAt(op) == otodo # <<>> /\ Head(otodo).op = op
OContinue(items) == otodo' = items \o Tail(otodo) /\ UNCHANGED <<oerrs, osettled>>
OFail == otodo' = <<>> /\ oerrs' = FALSE /\ osettled' = 0

orest == <<ocase, oruns, ohands, ofails>>

\* main: a run goes through configureOrg, and an error ends it.
configureOrg ==
  /\ otodo = <<>> /\ oruns < MaxORuns
  /\ oruns' = oruns + 1 /\ oinvites' = {} /\ omatches' = <<>> /\ ounused' = {}
  /\ otodo' = (IF oopt.fixOrg THEN <<[op |-> "meta"]>> ELSE <<>>) \o <<[op |-> "invites"]>>
              \o (IF oopt.fixOrgMembers THEN <<[op |-> "members"]>> ELSE <<>>)
              \o (IF oopt.fixRepos THEN <<[op |-> "repos"]>> ELSE <<>>)
              \o (IF oopt.fixTeams THEN <<[op |-> "teams"]>> ELSE <<>>) \o <<[op |-> "end"]>>
  /\ UNCHANGED <<ocase, oorg, oerrs, osettled, ohands, ofails>>

\* The permission's comparison drops the changes found before it (line 813).
configureOrgMeta ==
  /\ OAt("meta")
  /\ LET wanted(want, have) == IF want = "" THEN have ELSE want
         email == wanted(ocfg.email, oorg.email)
         perm == wanted(ocfg.perm, oorg.perm)
         change == IF ocfg.perm # "" THEN perm # oorg.perm ELSE email # oorg.email
     IN OContinue(IF change THEN <<[op |-> "editOrg", email |-> email, perm |-> perm]>> \o OCheck ELSE <<>>)
  /\ UNCHANGED <<oorg, olocal, orest>>

orgInvitations ==
  /\ OAt("invites")
  /\ oinvites' = IF oopt.fixOrgMembers \/ oopt.fixTeamMembers THEN oorg.invited ELSE {}
  /\ OContinue(<<>>)
  /\ UNCHANGED <<oorg, omatches, ounused, orest>>

\* As configureMembers, but somebody who was invited and is not wanted stays invited.
KeepInvitees(have, want, invitees, id) ==
  LET add(u, super) == [op |-> IF id = 0 THEN "addMember" ELSE "addTeamMember", id |-> id, user |-> u, super |-> super]
      remove(u) == [op |-> IF id = 0 THEN "removeMember" ELSE "removeTeamMember", id |-> id, user |-> u]
  IN  OEach((want.members \ have.members) \ invitees, LAMBDA u : add(u, FALSE))
      \o OEach((want.super \ have.super) \ invitees, LAMBDA u : add(u, TRUE))
      \o OEach((have.members \cup have.super) \ (want.members \cup want.super), remove)

\* The calls of configureMembers for the organisation (id 0) or for a team.
configureMembers(have, want, invitees, id) ==
  LET add(u, super) == [op |-> IF id = 0 THEN "addMember" ELSE "addTeamMember", id |-> id, user |-> u, super |-> super]
      remove(u) == [op |-> IF id = 0 THEN "removeMember" ELSE "removeTeamMember", id |-> id, user |-> u]
  IN  OEach((want.members \ have.members) \ invitees, LAMBDA u : add(u, FALSE))
      \o OEach((want.super \ have.super) \ invitees, LAMBDA u : add(u, TRUE))
      \o OEach((have.members \cup have.super \cup invitees) \ (want.members \cup want.super), remove)

TooMany(some, all) == Cardinality(some) * 100 > oopt.delta * Cardinality(all)

\* The names and former names of the teams at the top are unique.
DuplicateNames ==
  LET named(n) == <<n>> \o ocfg.teams[n].previously
      top == OChildren("")
  IN  \/ \E n \in top : ~IsInjective(named(n))
      \/ \E n, m \in top : n # m /\ ToSet(named(n)) \cap ToSet(named(m)) # {}

configureOrgMembers ==
  /\ OAt("members")
  /\ LET have == [members |-> oorg.members, super |-> oorg.admins]
         want == [members |-> ocfg.members, super |-> ocfg.admins]
         all(m) == m.members \cup m.super
         teamMembers == UNION {ocfg.teams[n].members \cup ocfg.teams[n].maint : n \in OChildren("")}
     IN IF \/ Cardinality(want.super) < oopt.minAdmins
           \/ ~(oopt.requiredAdmins \subseteq want.super)
           \/ oopt.requireSelf /\ oopt.self \notin want.super
           \/ TooMany(all(have) \ all(want), all(have))
           \/ ~(teamMembers \subseteq all(want))
           \/ DuplicateNames
           \/ want.super \cap want.members # {}
        THEN OFail
        ELSE OContinue(configureMembers(have, want, oinvites, 0) \o OCheck)
  /\ UNCHANGED <<oorg, olocal, orest>>

-----------------------------------------------------------------------------
(* Repos.                                                                  *)

RepoNames(n) == {n} \cup ocfg.repos[n].previously
Flag(want, have) == IF want = "" THEN have ELSE want = "yes"

\* newRepoUpdateRequest and sanitizeRepoDelta: what the repo is updated to, and whether something was refused.
RepoDelta(have, want) ==
  LET archive == Flag(want.archived, have.archived) # have.archived
      private == Flag(want.private, have.private) # have.private
      noArchive == archive /\ (have.archived \/ ~oopt.allowArchive)
      noPrivate == private /\ have.private /\ ~oopt.allowPublish
  IN [refused |-> noArchive \/ noPrivate,
      as |-> [private |-> IF noPrivate THEN have.private ELSE Flag(want.private, have.private),
              archived |-> IF noArchive THEN have.archived ELSE Flag(want.archived, have.archived)]]

\* The items for one declared repo; an update after a create that failed is left out (OCallFails).
RepoItems(n) ==
  LET want == ocfg.repos[n]
      existing == RepoNames(n) \cap DOMAIN oorg.repos
      created == [private |-> want.private = "yes", archived |-> FALSE]
      update(name, have) ==
        LET delta == RepoDelta(have, want)
        IN (IF delta.refused THEN <<[op |-> "error"]>> ELSE <<>>)
           \o (IF name # n \/ delta.as # have
               THEN <<[op |-> "updateRepo", repo |-> name, name |-> n, as |-> delta.as]>> ELSE <<>>)
  IN CASE Cardinality(existing) > 1 -> <<[op |-> "error"]>>
       [] existing = {} -> <<[op |-> "createRepo", repo |-> n, as |-> created]>> \o update(n, created)
       [] OTHER -> LET e == CHOOSE x \in existing : TRUE IN update(e, oorg.repos[e])

configureRepos ==
  /\ OAt("repos")
  /\ LET declared == DOMAIN ocfg.repos
     IN IF \E n, m \in declared : n # m /\ RepoNames(n) \cap RepoNames(m) # {}
        THEN OFail
        ELSE OContinue(FoldSet(LAMBDA n, q : q \o RepoItems(n), <<>>, declared) \o OCheck)
  /\ UNCHANGED <<oorg, olocal, orest>>

-----------------------------------------------------------------------------
(* Teams.                                                                  *)

\* The team with the lowest id among those of a name.
TeamNamed(ids, name) == Min({i \in ids : oorg.teams[i].name = name})

\* findTeam: the first of the name and the former names that is a team's, or 0.
findTeam(ids, n) ==
  LET named == <<n>> \o ocfg.teams[n].previously
      found == {k \in DOMAIN named : \E i \in ids : oorg.teams[i].name = named[k]}
  IN IF found = {} THEN 0 ELSE TeamNamed(ids, named[Min(found)])

Listed(i) == [id |-> i, name |-> oorg.teams[i].name, privacy |-> oorg.teams[i].privacy, parent |-> oorg.teams[i].parent]

\* The teams at the top, one after the other in any order: each with those below it, then their repos.
TeamItems(order) ==
  FoldLeft(LAMBDA q, n : q \o <<[op |-> "team", name |-> n]>>
                           \o (IF oopt.fixTeamRepos THEN <<[op |-> "teamRepos", name |-> n]>> \o OCheck ELSE <<>>),
           <<>>, order)

configureTeams ==
  /\ OAt("teams")
  /\ LET ids == {i \in DOMAIN oorg.teams : ~(oopt.ignoreSecret /\ oorg.teams[i].privacy = "secret")}
         found == {n \in OTeams : findTeam(ids, n) # 0}
         unused == ids \ {findTeam(ids, n) : n \in found}
     IN IF DuplicateNames \/ TooMany(unused, ids)
        THEN OFail /\ UNCHANGED <<omatches, ounused>>
        ELSE /\ omatches' = [n \in found |-> Listed(findTeam(ids, n))]
             /\ ounused' = unused
             /\ \E order \in OOrders(OChildren("")) :
                  OContinue(OEach(OTeams \ found,
                                  LAMBDA n : [op |-> "createTeam", name |-> n, privacy |-> ocfg.teams[n].privacy])
                            \o OCheck \o <<[op |-> "unused"]>> \o TeamItems(order))
  /\ UNCHANGED <<oorg, oinvites, orest>>

deleteUnused ==
  /\ OAt("unused")
  /\ LET used == {omatches[n].id : n \in DOMAIN omatches}
     IN OContinue(OEach(ounused \ used, LAMBDA i : [op |-> "deleteTeam", id |-> i]) \o OCheck)
  /\ UNCHANGED <<oorg, olocal, orest>>

\* configureTeamAndMembers with configureTeam: a patch of a team whose parent is right already
\* sends no parent, and so takes the team out of it.
configureTeam ==
  /\ OAt("team")
  /\ LET name == Head(otodo).name
         t == ocfg.teams[name]
         gt == omatches[name]
         parent == IF t.parent = "" THEN 0 ELSE omatches[t.parent].id
         privacy == CASE t.privacy # "" -> t.privacy
                      [] t.parent # "" \/ OChildren(name) # {} -> "closed"
                      [] OTHER -> gt.privacy
         patch == gt.name # name \/ gt.parent # parent \/ gt.privacy # privacy
         edit == [op |-> "editTeam", id |-> gt.id, name |-> name, privacy |-> privacy,
                  parent |-> IF gt.parent # parent THEN parent ELSE 0]
     IN \E order \in OOrders(OChildren(name)) :
          OContinue((IF patch THEN <<edit>> \o OCheck ELSE <<>>)
                    \o (IF oopt.fixTeamMembers THEN <<[op |-> "teamMembers", name |-> name]>> ELSE <<>>)
                    \o [k \in DOMAIN order |-> [op |-> "team", name |-> order[k]]])
  /\ UNCHANGED <<oorg, olocal, orest>>

configureTeamMembers ==
  /\ OAt("teamMembers")
  /\ LET name == Head(otodo).name
         t == ocfg.teams[name]
         id == omatches[name].id
     IN IF id \notin DOMAIN oorg.teams \/ t.maint \cap t.members # {}
        THEN OFail
        ELSE OContinue(configureMembers([members |-> oorg.teams[id].members, super |-> oorg.teams[id].maint],
                                        [members |-> t.members, super |-> t.maint], oorg.teams[id].invited, id)
                       \o OCheck)
  /\ UNCHANGED <<oorg, olocal, orest>>

\* A team whose repos cannot be listed is an error, and the teams below it are left alone.
configureTeamRepos ==
  /\ OAt("teamRepos")
  /\ LET name == Head(otodo).name
         id == omatches[name].id
     IN IF id \notin DOMAIN oorg.teams
        THEN otodo' = Tail(otodo) /\ oerrs' = TRUE /\ UNCHANGED osettled
        ELSE LET want == ocfg.teams[name].repos
                 have == oorg.teams[id].repos
                 update == {r \in DOMAIN want : ~(r \in DOMAIN have /\ have[r] = want[r])}
             IN OContinue(OEach(update, LAMBDA r : [op |-> "updateTeamRepo", id |-> id, repo |-> r, perm |-> want[r]])
                          \o OEach(DOMAIN have \ DOMAIN want, LAMBDA r : [op |-> "removeTeamRepo", id |-> id, repo |-> r])
                          \o OEach(OChildren(name), LAMBDA n : [op |-> "teamRepos", name |-> n]))
  /\ UNCHANGED <<oorg, olocal, orest>>

-----------------------------------------------------------------------------
(* Calls, errors and the end of a run.                                     *)

OReads == {"meta", "invites", "members", "repos", "teams", "teamMembers", "teamRepos"}
OSteps == OReads \cup {"unused", "team", "check", "error", "end"}

\* A list that cannot be read ends the run, except for the repos of a team.
OReadFails ==
  /\ otodo # <<>> /\ Head(otodo).op \in OReads
  /\ ofails < MaxOFails /\ ofails' = ofails + 1
  /\ IF OAt("teamRepos") THEN otodo' = Tail(otodo) /\ oerrs' = TRUE /\ UNCHANGED osettled ELSE OFail
  /\ UNCHANGED <<oorg, olocal, ocase, oruns, ohands>>

OCall ==
  /\ otodo # <<>> /\ Head(otodo).op \notin OSteps
  /\ LET c == Head(otodo) IN
     /\ Accepts(c)
     /\ oorg' = OEffect(c, oorg)
     /\ omatches' = IF c.op # "createTeam" THEN omatches
                    ELSE LET t == CreatedTeam(c)
                         IN (c.name :> [id |-> NewTeamId(oorg), name |-> t.name, privacy |-> t.privacy, parent |-> 0])
                            @@ omatches
  /\ OContinue(<<>>)
  /\ UNCHANGED <<oinvites, ounused, orest>>

\* The error is collected; the answer of a call that did take effect may be lost.
OCallFails ==
  /\ otodo # <<>> /\ Head(otodo).op \notin OSteps
  /\ LET c == Head(otodo)
         skip == c.op = "createRepo" /\ Len(otodo) > 1 /\ otodo[2].op = "updateRepo" /\ otodo[2].repo = c.repo
     IN /\ \/ ~Accepts(c) /\ UNCHANGED <<oorg, ofails>>
           \/ /\ Accepts(c) /\ ofails < MaxOFails /\ ofails' = ofails + 1
              /\ oorg' \in {oorg, OEffect(c, oorg)}
        /\ otodo' = IF skip THEN Tail(Tail(otodo)) ELSE Tail(otodo)
  /\ oerrs' = TRUE
  /\ UNCHANGED <<ocase, olocal, oruns, osettled, ohands>>

\* An error that no call made.
OError ==
  /\ OAt("error")
  /\ otodo' = Tail(otodo) /\ oerrs' = TRUE
  /\ UNCHANGED <<oorg, olocal, orest, osettled>>

OChecked ==
  /\ OAt("check")
  /\ IF oerrs THEN OFail ELSE OContinue(<<>>)
  /\ UNCHANGED <<oorg, olocal, orest>>

OEnd ==
  /\ OAt("end")
  /\ otodo' = <<>> /\ osettled' = osettled + 1
  /\ UNCHANGED <<oorg, olocal, orest, oerrs>>

-----------------------------------------------------------------------------
(* People.                                                                 *)

OHand ==
  /\ ohands < MaxOHands /\ ohands' = ohands + 1
  /\ osettled' = IF otodo = <<>> THEN 0 ELSE -1
  /\ UNCHANGED <<ocase, otodo, olocal, oerrs, oruns, ofails>>

\* Somebody accepts an invitation to the organisation, and with it those to its teams.
OAccepted ==
  /\ OHand
  /\ \E u \in oorg.invited, role \in {"admins", "members"} :
       oorg' = [oorg EXCEPT ![role] = @ \cup {u}, !.invited = @ \ {u},
                            !.teams = [i \in DOMAIN @ |->
                              IF u \in @[i].invited
                              THEN [@[i] EXCEPT !.invited = @ \ {u}, !.members = @ \cup {u}] ELSE @[i]]]

\* A team is deleted, or taken out of its parent and made secret, by hand.
OTeamChanged ==
  /\ OHand
  /\ \E i \in DOMAIN oorg.teams :
       oorg' \in {OEffect([op |-> "deleteTeam", id |-> i], oorg),
                  TeamWith(oorg, i, [oorg.teams[i] EXCEPT !.parent = 0, !.privacy = "secret"])}

\* Somebody is invited whom the config does not know.
OStranger ==
  /\ OHand
  /\ oorg' = [oorg EXCEPT !.invited = @ \cup {"stranger"}]

ORun ==
  \/ configureOrg
  \/ configureOrgMeta
  \/ orgInvitations
  \/ configureOrgMembers
  \/ configureRepos
  \/ configureTeams
  \/ deleteUnused
  \/ configureTeam
  \/ configureTeamMembers
  \/ configureTeamRepos
  \/ OReadFails
  \/ OCall
  \/ OCallFails
  \/ OError
  \/ OChecked
  \/ OEnd

ONext ==
  \/ ORun
  \/ OAccepted
  \/ OTeamChanged
  \/ OStranger

-----------------------------------------------------------------------------
(* What a run achieves.                                                    *)

OHas(have, want, invited) ==
  /\ want.super \subseteq have.super \cup invited
  /\ want.members \subseteq have.members \cup invited
  /\ have.super \cup have.members \cup invited \subseteq want.super \cup want.members

MembersRight == OHas([super |-> oorg.admins, members |-> oorg.members],
                     [super |-> ocfg.admins, members |-> ocfg.members], oorg.invited)

ReposRight ==
  \A n \in DOMAIN ocfg.repos :
    /\ n \in DOMAIN oorg.repos
    /\ oorg.repos[n] = [private |-> Flag(ocfg.repos[n].private, oorg.repos[n].private),
                        archived |-> Flag(ocfg.repos[n].archived, oorg.repos[n].archived)]

OTeam(n) == oorg.teams[omatches[n].id]

TeamRight(n) ==
  LET t == ocfg.teams[n] IN
  /\ omatches[n].id \in DOMAIN oorg.teams
  /\ OTeam(n).name = n
  /\ t.privacy # "" => OTeam(n).privacy = t.privacy
  /\ oopt.fixTeamMembers => OHas([super |-> OTeam(n).maint, members |-> OTeam(n).members],
                                 [super |-> t.maint, members |-> t.members], OTeam(n).invited)
  /\ oopt.fixTeamRepos => OTeam(n).repos = t.repos

Nested(n) == OTeam(n).parent = IF ocfg.teams[n].parent = "" THEN 0 ELSE omatches[ocfg.teams[n].parent].id

\* Peribolos never deletes the team that it has just matched with, or created for, a declared
\* name; and a run that succeeds while nobody else changes the organisation leaves exactly the
\* declared members and invitations, the declared repos, and exactly the declared teams (the
\* secret ones aside when they are ignored) with their members and repos; after a second such
\* run every team is also in its declared parent (src/cmd/peribolos/main.go).
OrgConverges ==
  /\ \A k \in DOMAIN otodo : otodo[k].op = "deleteTeam" =>
       \A n \in DOMAIN omatches : omatches[n].id # otodo[k].id
  /\ otodo = <<>> /\ osettled > 0 =>
       /\ oopt.fixOrg /\ ocfg.email # "" /\ ocfg.perm = "" => oorg.email = ocfg.email
       /\ oopt.fixOrg /\ ocfg.perm # "" => oorg.perm = ocfg.perm
       /\ oopt.fixOrgMembers => MembersRight
       /\ oopt.fixRepos => ReposRight
       /\ oopt.fixTeams =>
            /\ \A n \in OTeams : TeamRight(n)
            /\ TeamNames(oorg) \ OTeams \subseteq {oorg.teams[i].name : i \in {j \in DOMAIN oorg.teams :
                                                     oopt.ignoreSecret /\ oorg.teams[j].privacy = "secret"}}
            /\ osettled > 1 => \A n \in OTeams : Nested(n)

=============================================================================
