----------------------------- MODULE MCServices ------------------------------
(***************************************************************************)
(* Five parts that share no state: a Word template (TemplateCatalog), an   *)
(* organisation, the outbox of events with its consumers (EventBroker), a  *)
(* plan import session and an import of a whole history.  A behaviour is   *)
(* one of one of them, `active`; the others stay as they start.            *)
(***************************************************************************)
EXTENDS TemplateCatalog, Organization, EventBroker, ImportSession, ImportOperation

VARIABLE active

Services == {"template", "organization", "broker", "session", "history"}

serviceVars == <<templateVars, orgVars, brokerVars, sessionVars, operationVars, active>>

\* A part that is not active starts in one fixed state.
ServicesInit ==
  /\ active \in Services
  /\ TemplateInit /\ (active # "template" => versions[1].content = CHOOSE c \in Contents : TRUE)
  /\ OrganizationInit /\ (active # "organization" => ~trial)
  /\ BrokerInit
  /\ SessionInit /\ (active # "session" => plan = 0 /\ session.ready = "PENDING")
  /\ OperationInit /\ (active # "history" => rowVersion = 0 /\ expected = 0)

Others(part) == /\ part # "template" => UNCHANGED templateVars
                /\ part # "organization" => UNCHANGED orgVars
                /\ part # "broker" => UNCHANGED brokerVars
                /\ part # "session" => UNCHANGED sessionVars
                /\ part # "history" => UNCHANGED operationVars
ServicesNext ==
  /\ \/ active = "template" /\ TemplateNext
     \/ active = "organization" /\ OrganizationNext
     \/ active = "broker" /\ BrokerNext
     \/ active = "session" /\ SessionNext
     \/ active = "history" /\ OperationNext
  /\ UNCHANGED active /\ Others(active)

ServicesSpec == ServicesInit /\ [][ServicesNext]_serviceVars
=============================================================================
