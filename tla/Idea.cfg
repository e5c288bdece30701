SPECIFICATION Spec
CONSTANTS
    arca = arca
    studio = studio
    none = none
    google = google
    managed = managed
    onsite = onsite
    nameInferred = nameInferred
    Requirements <- MCRequirements
    Values = {arca, studio, none, google, managed, onsite}
    Choices <- MCChoices
    Assumptions = {nameInferred}
    NoneStated = {none}
    NoneBlocking = {none}
    Compatible <- MCCompatible
    Managed = {managed}
    SelfHosted = {onsite}
    MaxHistory = 3
INVARIANTS AnsweredAsSeen HandedOnAgreed
CHECK_DEADLOCK FALSE
