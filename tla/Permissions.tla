---------------------------- MODULE Permissions ----------------------------
(***************************************************************************)
(* What a role in the context team allows on project media and on their    *)
(* annotations (app/models/ability.rb).  The abilities of the roles add    *)
(* up: Ability#initialize grants those of every role up to the user's.     *)
(*                                                                         *)
(* `inTeam` stands for obj.get_team.include? @context_team.id, `own` for   *)
(* the author of the annotation or of the media being the user.            *)
(***************************************************************************)
EXTENDS Naturals

Roles == {"contributor", "journalist", "editor", "owner", "admin"}

Rank == [r \in Roles |-> CASE r = "contributor" -> 0 [] r = "journalist" -> 1
                           [] r = "editor" -> 2 [] r = "owner" -> 3 [] r = "admin" -> 4]

\* User#role?, false for who has no role.
AtLeast(role, base) == role \in Roles /\ Rank[base] <= Rank[role]

Kinds == {"Comment", "Tag", "Flag"}

\* Who may create an annotation of each kind: a comment is not asked for its team,
\* a contributor tags what it added itself, and each role has flags of its own.
MayAnnotate(role, kind, flag, inTeam, ownMedia) ==
  \/ role = "admin"
  \/ kind = "Comment" /\ AtLeast(role, "contributor")
  \/ /\ inTeam
     /\ \/ kind = "Tag" /\ AtLeast(role, IF ownMedia THEN "contributor" ELSE "journalist")
        \/ kind = "Flag" /\ AtLeast(role, "contributor") /\ flag \in {"Spam", "Graphic content"}
        \/ kind = "Flag" /\ AtLeast(role, "journalist") /\ flag = "Mark as graphic"

\* Who may change one: its author, if of the right rank, and editors; no rule is for tags.
MayChange(role, kind, inTeam, own) ==
  \/ role = "admin"
  \/ /\ inTeam
     /\ \/ kind = "Comment" /\ AtLeast(role, IF own THEN "contributor" ELSE "editor")
        \/ kind = "Flag" /\ AtLeast(role, IF own THEN "journalist" ELSE "editor")

\* Who may destroy one: owners of the team, and everybody in it a tag.
MayRemove(role, kind, inTeam) ==
  \/ role = "admin"
  \/ inTeam /\ AtLeast(role, IF kind = "Tag" THEN "contributor" ELSE "owner")

\* An Embed, as it is created or updated for another title, is asked for no team.
MayOverride(role) == AtLeast(role, "contributor")

\* A project media is changed by editors and by who owns its media.
MayUpdateMedia(role, inTeam, ownMedia) ==
  \/ role = "admin"
  \/ inTeam /\ AtLeast(role, IF ownMedia THEN "contributor" ELSE "editor")

MayDestroyMedia(role, inTeam, ownMedia) ==
  \/ role = "admin"
  \/ inTeam /\ AtLeast(role, IF ownMedia THEN "contributor" ELSE "owner")
=============================================================================
