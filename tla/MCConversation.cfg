CONSTANTS
  Lines <- MCLines
  Answers <- MCAnswers
  BufferSize = 23
  MaxTyped = 2
SPECIFICATION TalkSpec
INVARIANTS PatientTalk NothingInvented
PROPERTY PatientIsAnswered
