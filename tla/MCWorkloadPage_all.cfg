SPECIFICATION Spec
CONSTANTS
    Cols = {"namespace", "total_cost"}
    Labels = {"label_app", "label_a.b"}
    BadLabels = {"label_a.b"}
    Texts = {"used_cpu_cores", "namespace DESC", "1"}
    Sorts <- Expression
    Ranges = {2, 4}
    Day = 4
    Zero = Zero
    Bookmarks <- TypedUrls
    InputTimes = {7, 12}
    FirstTime = 11
    MaxNow = 12
    MinTime = 2
    MaxTime = 16
INVARIANT TypeOK
INVARIANT ReloadShowsTheSame
INVARIANT PagesTouch
INVARIANT ControlsChangeOneThing
INVARIANT ControlsAreAccepted
