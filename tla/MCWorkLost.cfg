CONSTANTS
    Work = {"j"}
    NoWork = NoWork
    MaxWorkQueue = 3
SPECIFICATION WorkSpec
PROPERTY WorkGetsDone
