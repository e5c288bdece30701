------------------------ MODULE MCIdeaClarification ------------------------
(* A small instance: a project name the rules may infer, the sign-in and   *)
(* the deployment, each with answers that agree and that clash.            *)
EXTENDS IdeaClarification

CONSTANTS arca, studio, none, google, managed, onsite, nameInferred

MCChoices ==
    [r \in {"proposed_project_name", "authentication_requirements",
            "deployment_requirements"} |->
        CASE r = "proposed_project_name" -> {{arca}, {studio}}
          [] r = "authentication_requirements" ->
                 {{none}, {google}, {none, google}}
          [] r = "deployment_requirements" -> {{managed}, {managed, onsite}}]

MCRequirements == DOMAIN MCChoices
MCCompatible == [v \in {} |-> {}]
=============================================================================
