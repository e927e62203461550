SPECIFICATION Spec
CONSTANTS
    Requests = {q1, q2, q3}
    NoRequest = none
    MaxKeys = 4
INVARIANTS TypeOK NothingStuck OwnAnswers
