SPECIFICATION OnboardingSpec
CONSTANTS
    fall = fall
    winter = winter
    Unset = Unset
    Idle = Idle
    Courses <- MCCourses
    LastTerm = 2
    TermOf <- MCTermOf
    MaxChanges = 2
INVARIANTS
    CompleteIsDone
    OnlySelected
