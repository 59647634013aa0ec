SPECIFICATION WebhookSpec
CONSTANTS
    Events = {event}
INVARIANTS
    WebhookTypeOK
    LogIsTruthful
    GivesUpLate
PROPERTIES
    AnswerIsFinal
    EveryPublicationIsLogged
CHECK_DEADLOCK FALSE
