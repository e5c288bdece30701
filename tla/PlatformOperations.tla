--------------------------- MODULE PlatformOperations ---------------------------
(***************************************************************************)
(* What the platform does besides building: the object storage, the events *)
(* with their webhooks, the release gate, the declarations of a module,    *)
(* the service generated for one, the documents of an idea and the         *)
(* amendment of an approved model.  They share authorization and nothing   *)
(* that they keep, so a behaviour follows one of them, and the others stay *)
(* where they start.                                                       *)
(***************************************************************************)
EXTENDS ObjectStorage, EventDelivery, ReleaseGate, GeneratedService, FieldDeclarations, IdeaRecords,
        ModelAmendment

VARIABLE service        \* the service this behaviour follows

operationVars == <<service, storageVars, deliveryVars, gateVars, serviceVars, declarationVars, ideaVars, amendmentVars>>

Services == {"storage", "events", "release", "records", "declarations", "ideas", "amendments"}

Init ==
    /\ service \in Services
    /\ StorageInit /\ DeliveryInit
    /\ GateInit
    /\ service # "release" => head = (CHOOSE c \in Commits : TRUE) /\ tree = (CHOOSE t \in Trees : TRUE)
    /\ ServiceInit
    /\ service # "records" =>
          contract = (CHOOSE c \in ServiceContracts : TRUE) /\ table = [i \in RowIds |-> NoRow]
    /\ IdeaInit
    /\ AmendmentInit
    /\ \/ service = "declarations" /\ DeclarationInit
       \/ service # "declarations" /\ declared = <<>> /\ option = (CHOOSE o \in Options : TRUE)

Next ==
    /\ UNCHANGED service
    /\ \/ /\ service = "storage" /\ StorageNext
          /\ UNCHANGED <<deliveryVars, gateVars, serviceVars, declarationVars, ideaVars, amendmentVars>>
       \/ /\ service = "events" /\ DeliveryNext
          /\ UNCHANGED <<storageVars, gateVars, serviceVars, declarationVars, ideaVars, amendmentVars>>
       \/ /\ service = "release" /\ GateNext
          /\ UNCHANGED <<storageVars, deliveryVars, serviceVars, declarationVars, ideaVars, amendmentVars>>
       \/ /\ service = "records" /\ ServiceNext
          /\ UNCHANGED <<storageVars, deliveryVars, gateVars, declarationVars, ideaVars, amendmentVars>>
       \/ /\ service = "declarations" /\ DeclarationNext
          /\ UNCHANGED <<storageVars, deliveryVars, gateVars, serviceVars, ideaVars, amendmentVars>>
       \/ /\ service = "ideas" /\ IdeaNext
          /\ UNCHANGED <<storageVars, deliveryVars, gateVars, serviceVars, declarationVars, amendmentVars>>
       \/ /\ service = "amendments" /\ AmendmentNext
          /\ UNCHANGED <<storageVars, deliveryVars, gateVars, serviceVars, declarationVars, ideaVars>>

Spec == Init /\ [][Next]_operationVars
=============================================================================
