SPECIFICATION Spec
CONSTANT MaxSent = 2
PROPERTIES AnswersInAckMode
