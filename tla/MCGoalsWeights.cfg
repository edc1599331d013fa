SPECIFICATION GoalsSpec
CONSTANTS
    KeyResultIds = {1, 2, 3, 4, 5, 6, 7, 8}
    Percents = {}
    Positions = {}
    Overrides = {}
    LinkedTasks = {}
    Writers = {"w1"}
    MaxPosition = 8
INVARIANT WeightInRange
CHECK_DEADLOCK FALSE
